---- MODULE Spec2Model ----
(***************************************************************************)
(* Falling-sand cellular automaton (giraffekey/falling-sand-bevy).         *)
(*                                                                         *)
(* The model follows src/src/grid.rs: the Grid resource, the systems       *)
(* tick_grid, spawn_sand, draw_grid, update_brush_size and select_tile,    *)
(* and the material catalog of src/src/cell.rs.  grid.rs is written on a   *)
(* revision of cell.rs that knows an Acid material and has the queries     *)
(* on Cell itself; that revision is not among the sources, so the Acid     *)
(* entries are taken from the design document and kept in definitions of   *)
(* their own (DATA_ACID, dissolves, cell_falls, cell_slides).              *)
(*                                                                         *)
(* Coordinates are <<x, y>> with y growing downwards, as in the source:    *)
(* <<x, y + 1>> is the slot below <<x, y>>.  An Option<T> is a sequence    *)
(* of length at most one: None is <<>>, Some(v) is <<v>>.                  *)
(***************************************************************************)
EXTENDS Integers, Sequences, FiniteSets, TLC

\* ------------------------------------------------------------- bounds

\* The grid of the model (320 x 180 in the source).
GRID_WIDTH == 3

GRID_HEIGHT == 3

\* The most occupied slots a scenario starts with or a brush stroke may
\* bring the grid to.
MaxCells == 2

\* The most generations a run of the whole application advances.
MaxGen == 1

\* The period of the tick timer in units of model time (0.01 s in the
\* source), the longest frame in the same units, and the most expiries of
\* the timer a run of the timer scenario follows.
TICK_RATE == 2

MaxDelta == 5

MaxExpiries == 4

\* The generations followed in the scenario of a single falling cell: more
\* than the fall through the whole grid takes, to see the cell at rest.
FallGen == 16

\* The generations followed in the fire scenarios: the catalog lifespan of
\* Fire and two more.
FireGen == 22

\* ------------------------------------------------------------ catalog

None == <<>>

Some(v) == <<v>>

IsSome(o) == o # <<>>

Unwrap(o) == o[1]

Material(kind, d) == [kind |-> kind, density |-> d]

DATA_SAND ==
    [material |-> Material("Powder", 0),
     flammable |-> FALSE, lifespan |-> None, color |-> <<194, 178, 128>>]

DATA_STONE ==
    [material |-> Material("Solid", 0),
     flammable |-> FALSE, lifespan |-> None, color |-> <<83, 86, 91>>]

DATA_WOOD ==
    [material |-> Material("Solid", 0),
     flammable |-> TRUE, lifespan |-> None, color |-> <<164, 116, 73>>]

DATA_WATER ==
    [material |-> Material("Liquid", 1),
     flammable |-> FALSE, lifespan |-> None, color |-> <<30, 144, 255>>]

DATA_OIL ==
    [material |-> Material("Liquid", 0),
     flammable |-> TRUE, lifespan |-> None, color |-> <<59, 49, 49>>]

DATA_OXYGEN ==
    [material |-> Material("Gas", 0),
     flammable |-> TRUE, lifespan |-> None, color |-> <<187, 198, 213>>]

DATA_FIRE ==
    [material |-> Material("Fire", 0),
     flammable |-> FALSE, lifespan |-> Some(20), color |-> <<226, 88, 34>>]

DATA_WIND ==
    [material |-> Material("Wind", 0),
     flammable |-> FALSE, lifespan |-> Some(50), color |-> <<255, 255, 255>>]

\* Acid: class Acid, not flammable, no lifespan (design document, 3 and 4.2);
\* its colour is not documented, any colour of its own does.
DATA_ACID ==
    [material |-> Material("Acid", 0),
     flammable |-> FALSE, lifespan |-> None, color |-> <<0, 255, 0>>]

CellId == {"Sand", "Stone", "Wood", "Water", "Oil", "Acid", "Oxygen", "Fire", "Wind"}

\* CellId::data
data(id) ==
    CASE id = "Sand" -> DATA_SAND
      [] id = "Stone" -> DATA_STONE
      [] id = "Wood" -> DATA_WOOD
      [] id = "Water" -> DATA_WATER
      [] id = "Oil" -> DATA_OIL
      [] id = "Acid" -> DATA_ACID
      [] id = "Oxygen" -> DATA_OXYGEN
      [] id = "Fire" -> DATA_FIRE
      [] id = "Wind" -> DATA_WIND

\* struct Cell
Cell(id, life) == [id |-> id, life |-> life]

\* CellData::falls with the Gas class among the falling ones.
falls_gas(d) ==
    CASE d.material.kind \in {"Powder", "Solid", "Liquid", "Gas"} -> TRUE
      [] d.material.kind \in {"Fire", "Wind"} -> FALSE
      [] OTHER -> FALSE

\* CellData::falls without the Powder class.
falls_no_powder(d) ==
    CASE d.material.kind \in {"Solid", "Liquid"} -> TRUE
      [] d.material.kind \in {"Powder", "Gas", "Fire", "Wind"} -> FALSE
      [] OTHER -> FALSE

\* CellData::falls
falls(d) ==
    CASE d.material.kind \in {"Powder", "Solid", "Liquid"} -> TRUE
      [] d.material.kind \in {"Gas", "Fire", "Wind"} -> FALSE
      [] OTHER -> FALSE

\* CellData::slides with the Solid class among the sliding ones.
slides_solid(d) ==
    CASE d.material.kind \in {"Powder", "Liquid", "Solid"} -> TRUE
      [] d.material.kind \in {"Gas", "Fire", "Wind"} -> FALSE
      [] OTHER -> FALSE

\* CellData::slides
slides(d) ==
    CASE d.material.kind \in {"Powder", "Liquid"} -> TRUE
      [] d.material.kind \in {"Solid", "Gas", "Fire", "Wind"} -> FALSE
      [] OTHER -> FALSE

\* sinks_under without the arm of a Liquid over a Gas.
sinks_under_no_gas(d, other) ==
    IF IsSome(other)
    THEN LET a == d.material
             b == data(Unwrap(other).id).material
         IN  CASE a.kind = "Powder" /\ b.kind = "Liquid" -> TRUE
               [] a.kind = "Solid" /\ b.kind = "Liquid" -> TRUE
               [] a.kind = "Liquid" /\ b.kind = "Liquid" -> a.density > b.density
               [] a.kind = "Powder" /\ b.kind = "Gas" -> TRUE
               [] a.kind = "Solid" /\ b.kind = "Gas" -> TRUE
               [] OTHER -> FALSE
    ELSE TRUE

\* sinks_under with the comparison of the densities the other way round.
sinks_under_lighter(d, other) ==
    IF IsSome(other)
    THEN LET a == d.material
             b == data(Unwrap(other).id).material
         IN  CASE a.kind = "Powder" /\ b.kind = "Liquid" -> TRUE
               [] a.kind = "Solid" /\ b.kind = "Liquid" -> TRUE
               [] a.kind = "Liquid" /\ b.kind = "Liquid" -> a.density < b.density
               [] a.kind = "Powder" /\ b.kind = "Gas" -> TRUE
               [] a.kind = "Solid" /\ b.kind = "Gas" -> TRUE
               [] a.kind = "Liquid" /\ b.kind = "Gas" -> TRUE
               [] OTHER -> FALSE
    ELSE TRUE

\* CellData::sinks_under: other is an Option<Cell>.
sinks_under(d, other) ==
    IF IsSome(other)
    THEN LET a == d.material
             b == data(Unwrap(other).id).material
         IN  CASE a.kind = "Powder" /\ b.kind = "Liquid" -> TRUE
               [] a.kind = "Solid" /\ b.kind = "Liquid" -> TRUE
               [] a.kind = "Liquid" /\ b.kind = "Liquid" -> a.density > b.density
               [] a.kind = "Powder" /\ b.kind = "Gas" -> TRUE
               [] a.kind = "Solid" /\ b.kind = "Gas" -> TRUE
               [] a.kind = "Liquid" /\ b.kind = "Gas" -> TRUE
               [] OTHER -> FALSE
    ELSE TRUE

\* The queries grid.rs makes of a Cell.  Cell::falls and Cell::slides add the
\* Acid class to the CellData queries (design document, 4.2).
cell_falls(cell) == data(cell.id).material.kind = "Acid" \/ falls(data(cell.id))

cell_slides(cell) == data(cell.id).material.kind = "Acid" \/ slides(data(cell.id))

cell_sinks_under(cell, other) == sinks_under(data(cell.id), other)

\* Cell::dissolves (design document, 4.2): an Acid cell dissolves any
\* occupied non-Acid neighbour.
dissolves(cell, other) ==
    /\ data(cell.id).material.kind = "Acid"
    /\ IsSome(other)
    /\ data(Unwrap(other).id).material.kind # "Acid"

cell_material(cell) == data(cell.id).material

cell_flammable(cell) == data(cell.id).flammable

cell_lifespan(cell) == data(cell.id).lifespan

\* ------------------------------------------------------------ the grid

Coords == (0 .. GRID_WIDTH - 1) \X (0 .. GRID_HEIGHT - 1)

\* The grid built one row short: vec![vec![None; GRID_HEIGHT - 1]; GRID_WIDTH].
EmptyGridShort == [c \in (0 .. GRID_WIDTH - 1) \X (0 .. GRID_HEIGHT - 2) |-> None]

\* vec![vec![None; GRID_HEIGHT]; GRID_WIDTH]
EmptyGrid == [c \in Coords |-> None]

\* The destination offsets taken without the clamp.
clamp_none(v, lo, hi) == v

\* isize::clamp
clamp(v, lo, hi) == IF v < lo THEN lo ELSE IF v > hi THEN hi ELSE v

\* adjacent(x, y): the 4-neighbours inside the grid, in the source's order.
adjacent(x, y) ==
    (IF x > 0 THEN << <<x - 1, y>> >> ELSE <<>>)
    \o (IF x < GRID_WIDTH - 1 THEN << <<x + 1, y>> >> ELSE <<>>)
    \o (IF y > 0 THEN << <<x, y - 1>> >> ELSE <<>>)
    \o (IF y < GRID_HEIGHT - 1 THEN << <<x, y + 1>> >> ELSE <<>>)

\* ------------------------------------------------ tick_grid: one visit

(***************************************************************************)
(* The working state of one run of tick_grid's loop is a record t:         *)
(*   t.n  new_cells, the successor buffer;                                 *)
(*   t.w  for each slot, the movement rules that wrote it (a bookkeeping   *)
(*        of the model: a vertical swap is named by its lower slot, so     *)
(*        that the fall of the upper cell and the float of the lower one   *)
(*        are the same swap; every other move is named by its source);     *)
(*   t.l  for each material id, how many cells a rule removed on purpose   *)
(*        (expiry, dissolution, falling onto fire, fire attrition,         *)
(*        ignition of a flammable cell);                                   *)
(*   t.f  how many Fire cells combustion spread created;                   *)
(*   t.p  whether the loop reached todo!().                                *)
(***************************************************************************)
Put(t, c, v) == [t EXCEPT !.n[c] = v]

Claim(t, c, tag) == [t EXCEPT !.w[c] = @ \cup {tag}]

Lose(t, id) == [t EXCEPT !.l[id] = @ + 1]

Lit(t) == [t EXCEPT !.f = @ + 1]

PairTag(x, ylow) == <<"pair", x, ylow>>

CellTag(x, y) == <<"cell", x, y>>

\* *life -= 1 on a u8 (grid.rs:109-110).
Decay(cell) ==
    IF IsSome(cell.life)
    THEN [cell EXCEPT !.life = Some((Unwrap(cell.life) - 1) % 256)]
    ELSE cell

\* The lifespan test left out.
ExpiredNever(cell) == FALSE

\* if *life == 0 (grid.rs:111)
Expired(cell) == IsSome(cell.life) /\ Unwrap(cell.life) = 0

\* new_cells[x][y] = None; continue (grid.rs:112-113)
Expire(t, x, y, cell) == Lose(Put(t, <<x, y>>, None), cell.id)

\* The float test never holding.
FloatCondNever(old, x, y, cell) == FALSE

\* The float test (grid.rs:117-121).
FloatCond(old, x, y, cell) ==
    /\ y > 0
    /\ IsSome(old[<<x, y - 1>>])
    /\ cell_sinks_under(Unwrap(old[<<x, y - 1>>]), Some(cell))

\* The float swap (grid.rs:122-124).
Float(old, t, x, y, cell) ==
    LET t1 == Put(t, <<x, y>>, old[<<x, y - 1>>])
        t2 == Put(t1, <<x, y - 1>>, Some(cell))
    IN  Claim(Claim(t2, <<x, y>>, PairTag(x, y)), <<x, y - 1>>, PairTag(x, y))

\* The fall test (grid.rs:131-133).
FallCond(old, x, y, cell) ==
    \/ cell_sinks_under(cell, old[<<x, y + 1>>])
    \/ dissolves(cell, old[<<x, y + 1>>])

\* The fall: dissolve the cell below, or swap with it (grid.rs:134-141).
Fall(old, t, x, y, cell) ==
    IF dissolves(cell, old[<<x, y + 1>>])
    THEN Lose(Lose(Put(Put(t, <<x, y>>, None), <<x, y + 1>>, None), cell.id),
              Unwrap(old[<<x, y + 1>>]).id)
    ELSE LET t1 == Put(t, <<x, y>>, old[<<x, y + 1>>])
             t2 == Put(t1, <<x, y + 1>>, Some(cell))
         IN  Claim(Claim(t2, <<x, y>>, PairTag(x, y + 1)), <<x, y + 1>>, PairTag(x, y + 1))

\* Some(c) if c.material() == Material::Fire (grid.rs:145)
OnFire(old, x, y) ==
    /\ IsSome(old[<<x, y + 1>>])
    /\ cell_material(Unwrap(old[<<x, y + 1>>])).kind = "Fire"

\* Extinguish fire without the test of flammability: the falling cell always
\* takes the fire's slot.
ExtinguishAlways(t, x, y, cell) ==
    LET t1 == Put(t, <<x, y>>, None)
    IN  Lose(Claim(Claim(Put(t1, <<x, y + 1>>, Some(cell)), <<x, y>>, CellTag(x, y)),
                   <<x, y + 1>>, CellTag(x, y)), "Fire")

\* Extinguish fire (grid.rs:146-150).
Extinguish(t, x, y, cell) ==
    LET t1 == Put(t, <<x, y>>, None)
    IN  IF ~cell_flammable(cell)
        THEN Lose(Claim(Claim(Put(t1, <<x, y + 1>>, Some(cell)), <<x, y>>, CellTag(x, y)),
                        <<x, y + 1>>, CellTag(x, y)), "Fire")
        ELSE Lose(t1, cell.id)

\* Some(c) if c.dissolves(Some(cell)) (grid.rs:153)
InAcid(old, x, y, cell) ==
    /\ IsSome(old[<<x, y + 1>>])
    /\ dissolves(Unwrap(old[<<x, y + 1>>]), Some(cell))

\* Dissolve in acid (grid.rs:154-155); the arm does not end the visit.
DissolveInAcid(old, t, x, y, cell) ==
    Lose(Lose(Put(Put(t, <<x, y>>, None), <<x, y + 1>>, None), cell.id),
         Unwrap(old[<<x, y + 1>>]).id)

\* below_left / below_right without the comparison of the snapshot and the
\* successor buffer.
BelowSideUnclaimed(old, t, x, y, cell, nx) ==
    /\ nx >= 0
    /\ nx <= GRID_WIDTH - 1
    /\ \/ cell_sinks_under(cell, old[<<nx, y + 1>>])
       \/ dissolves(cell, old[<<nx, y + 1>>])
    /\ cell_sinks_under(cell, old[<<nx, y>>])

\* below_left / below_right without the test of the lateral slot.
BelowSideOpen(old, t, x, y, cell, nx) ==
    /\ nx >= 0
    /\ nx <= GRID_WIDTH - 1
    /\ \/ cell_sinks_under(cell, old[<<nx, y + 1>>])
       \/ dissolves(cell, old[<<nx, y + 1>>])
    /\ old[<<nx, y + 1>>] = t.n[<<nx, y + 1>>]

\* below_left / below_right before the coin (grid.rs:164-173); nx is x - 1
\* or x + 1.
BelowSide(old, t, x, y, cell, nx) ==
    /\ nx >= 0
    /\ nx <= GRID_WIDTH - 1
    /\ \/ cell_sinks_under(cell, old[<<nx, y + 1>>])
       \/ dissolves(cell, old[<<nx, y + 1>>])
    /\ cell_sinks_under(cell, old[<<nx, y>>])
    /\ old[<<nx, y + 1>>] = t.n[<<nx, y + 1>>]

\* The slide to one side (grid.rs:185-194 and 196-205).
SlideTo(old, t, x, y, cell, nx) ==
    IF dissolves(cell, old[<<nx, y + 1>>])
    THEN Lose(Lose(Put(Put(t, <<x, y>>, None), <<nx, y + 1>>, None), cell.id),
              Unwrap(old[<<nx, y + 1>>]).id)
    ELSE LET t1 == Put(t, <<x, y>>, old[<<nx, y + 1>>])
             t2 == Put(t1, <<nx, y + 1>>, Some(cell))
         IN  Claim(Claim(t2, <<x, y>>, CellTag(x, y)), <<nx, y + 1>>, CellTag(x, y))

\* left / right with the lateral slot read from the snapshot.
GapSideSnapshot(old, t, x, y, cell, nx) ==
    /\ nx >= 0
    /\ nx <= GRID_WIDTH - 1
    /\ \/ cell_sinks_under(cell, old[<<nx, y>>])
       \/ dissolves(cell, old[<<nx, y>>])
    /\ (y = 0 \/ cell_sinks_under(cell, old[<<nx, y - 1>>]))

\* left / right before the coin (grid.rs:213-220).
GapSide(old, t, x, y, cell, nx) ==
    /\ nx >= 0
    /\ nx <= GRID_WIDTH - 1
    /\ \/ cell_sinks_under(cell, t.n[<<nx, y>>])
       \/ dissolves(cell, t.n[<<nx, y>>])
    /\ (y = 0 \/ cell_sinks_under(cell, old[<<nx, y - 1>>]))

\* Fill the gap on one side (grid.rs:232-241 and 243-252).
FillTo(t, x, y, cell, nx) ==
    IF dissolves(cell, t.n[<<nx, y>>])
    THEN Lose(Lose(Put(Put(t, <<x, y>>, None), <<nx, y>>, None), cell.id),
              Unwrap(t.n[<<nx, y>>]).id)
    ELSE LET t1 == Put(t, <<x, y>>, t.n[<<nx, y>>])
             t2 == Put(t1, <<nx, y>>, Some(cell))
         IN  Claim(Claim(t2, <<x, y>>, CellTag(x, y)), <<nx, y>>, CellTag(x, y))

\* if left && right { if rng.gen() { (true, false) } else { (false, true) } }
\* (grid.rs:175-183 and 222-230): the side taken, 0 for none.
Side(left, right, coin, x) ==
    IF left /\ right THEN (IF coin THEN x - 1 ELSE x + 1)
    ELSE IF left THEN x - 1
    ELSE IF right THEN x + 1
    ELSE 0 - 2

\* Fill gaps (grid.rs:210-253).
FillGaps(old, t, x, y, cell, r) ==
    LET nx == Side(GapSide(old, t, x, y, cell, x - 1), GapSide(old, t, x, y, cell, x + 1),
                   r.coin, x)
    IN  IF nx >= 0 THEN FillTo(t, x, y, cell, nx) ELSE t

\* Disperse with the destination tested in the snapshot only.
DisperseSnapshot(old, t, x, y, cell, r) ==
    LET new_x == clamp(x + r.dx, 0, GRID_WIDTH - 1)
        new_y == clamp(y + r.dy, 0, GRID_HEIGHT - 1)
        d == <<new_x, new_y>>
    IN  IF old[d] = None
        THEN Claim(Claim(Put(Put(t, <<x, y>>, None), d, Some(cell)), <<x, y>>, CellTag(x, y)),
                   d, CellTag(x, y))
        ELSE t

\* Disperse (grid.rs:254-272).
Disperse(old, t, x, y, cell, r) ==
    LET new_x == clamp(x + r.dx, 0, GRID_WIDTH - 1)
        new_y == clamp(y + r.dy, 0, GRID_HEIGHT - 1)
        d == <<new_x, new_y>>
    IN  IF old[d] = None /\ t.n[d] = None
        THEN Claim(Claim(Put(Put(t, <<x, y>>, None), d, Some(cell)), <<x, y>>, CellTag(x, y)),
                   d, CellTag(x, y))
        ELSE t

\* grid.cells[nx][ny].is_some() && grid.cells[nx][ny].unwrap().flammable()
\* (grid.rs:276-282): the flammable 4-neighbours, read from the snapshot.
Flammables(old, x, y) ==
    LET P(c) == IsSome(old[c]) /\ cell_flammable(Unwrap(old[c]))
    IN  SelectSeq(adjacent(x, y), P)

\* The open slots taken from the snapshot only.
OpenSnapshot(old, t, nx, ny) ==
    LET P(c) == old[c] = None
    IN  SelectSeq(adjacent(nx, ny), P)

\* The open slots around a flammable neighbour (grid.rs:285-290).
Open(old, t, nx, ny) ==
    LET P(c) == old[c] = None /\ t.n[c] = None
    IN  SelectSeq(adjacent(nx, ny), P)

\* The new cell as ash, a Powder cell, instead of Fire.
FlameAsh(cell) == Cell("Sand", None)

\* The new Fire cell as a copy of the cell that lights it.
FlameCopy(cell) == cell

\* Cell { id: cell.id, life: cell.lifespan() } (grid.rs:293-296, 305-308)
Flame(cell) == Cell(cell.id, cell_lifespan(cell))

\* One turn of the loop over the flammable neighbours (grid.rs:284-310):
\* pick is the draw of open.choose, ignite whether rng.gen::<f32>() < chance.
SpreadTo(old, t, c, cell, pick, ignite) ==
    LET open == Open(old, t, c[1], c[2])
        t1 == IF open # <<>>
              THEN Lit(Put(t, open[((pick - 1) % Len(open)) + 1], Some(Flame(cell))))
              ELSE t
    IN  IF ignite
        THEN Lit(Lose(Put(t1, c, Some(Flame(cell))), Unwrap(old[c]).id))
        ELSE t1

\* Spread flames (grid.rs:276-310): the neighbours fl[i..] in turn.
RECURSIVE SpreadFlames(_, _, _, _, _, _)
SpreadFlames(old, t, fl, i, cell, r) ==
    IF i > Len(fl) THEN t
    ELSE SpreadFlames(old, SpreadTo(old, t, fl[i], cell, r.picks[i], r.ignite[i]),
                      fl, i + 1, cell, r)

\* Rise with the vertical offset taken downwards.
RiseSink(old, t, x, y, cell, r) ==
    LET new_x == clamp(x + r.dx, 0, GRID_WIDTH - 1)
        new_y == clamp(y - r.dy, 0, GRID_HEIGHT - 1)
        d == <<new_x, new_y>>
        t1 == Claim(Put(t, <<x, y>>, None), <<x, y>>, CellTag(x, y))
    IN  IF IsSome(old[d])
        THEN IF cell_flammable(Unwrap(old[d]))
             THEN Lose(Claim(Put(t1, d, Some(cell)), d, CellTag(x, y)), Unwrap(old[d]).id)
             ELSE Lose(t1, cell.id)
        ELSE Claim(Put(t1, d, Some(cell)), d, CellTag(x, y))

\* Rise (grid.rs:312-333).
Rise(old, t, x, y, cell, r) ==
    LET new_x == clamp(x + r.dx, 0, GRID_WIDTH - 1)
        new_y == clamp(y + r.dy, 0, GRID_HEIGHT - 1)
        d == <<new_x, new_y>>
        t1 == Claim(Put(t, <<x, y>>, None), <<x, y>>, CellTag(x, y))
    IN  IF IsSome(old[d])
        THEN IF cell_flammable(Unwrap(old[d]))
             THEN Lose(Claim(Put(t1, d, Some(cell)), d, CellTag(x, y)), Unwrap(old[d]).id)
             ELSE Lose(t1, cell.id)
        ELSE Claim(Put(t1, d, Some(cell)), d, CellTag(x, y))

\* match cell.material() (grid.rs:208-336)
MaterialRule(old, t, x, y, cell, r) ==
    LET kind == cell_material(cell).kind
    IN  CASE kind \in {"Powder", "Solid"} -> t
          [] kind \in {"Liquid", "Acid"} -> FillGaps(old, t, x, y, cell, r)
          [] kind = "Gas" -> Disperse(old, t, x, y, cell, r)
          [] kind = "Fire" ->
                Rise(old, SpreadFlames(old, t, Flammables(old, x, y), 1, cell, r), x, y, cell, r)
          [] kind = "Wind" -> [t EXCEPT !.p = TRUE]

\* Slide down slopes, and the material's own rule when the cell does not
\* slide (grid.rs:162-336).
Slide(old, t, x, y, cell, r) ==
    LET nx == IF cell_slides(cell)
              THEN Side(BelowSide(old, t, x, y, cell, x - 1),
                        BelowSide(old, t, x, y, cell, x + 1), r.coin, x)
              ELSE 0 - 2
    IN  IF nx >= 0 THEN SlideTo(old, t, x, y, cell, nx)
        ELSE MaterialRule(old, t, x, y, cell, r)

\* The rules of a cell above the bottom row (grid.rs:128-337).
Lower(old, t, x, y, cell, r) ==
    IF cell_falls(cell) /\ FallCond(old, x, y, cell) THEN Fall(old, t, x, y, cell)
    ELSE IF cell_falls(cell) /\ OnFire(old, x, y) THEN Extinguish(t, x, y, cell)
    ELSE IF cell_falls(cell) /\ InAcid(old, x, y, cell)
         THEN Slide(old, DissolveInAcid(old, t, x, y, cell), x, y, cell, r)
         ELSE Slide(old, t, x, y, cell, r)

\* The body of the loop for an occupied slot (grid.rs:108-338): old is
\* grid.cells, r the random draws of this visit.
VisitCell(old, t, x, y, r) ==
    LET cell == Decay(Unwrap(old[<<x, y>>]))
    IN  IF Expired(cell) THEN Expire(t, x, y, cell)
        ELSE IF FloatCond(old, x, y, cell) THEN Float(old, t, x, y, cell)
        ELSE IF y < GRID_HEIGHT - 1 THEN Lower(old, t, x, y, cell, r)
        ELSE t

\* The draws a visit may make of thread_rng: the coin of a slide or a gap
\* (rng.gen()), the offsets of a gas (-1..=1, -1..=1) or of a fire (-1..=1,
\* -2..=0), and for each flammable neighbour of a fire the choice among the
\* open slots and whether it ignites.  A draw the cell's material never makes
\* is held at one value.
Draws(old, x, y) ==
    LET kind == cell_material(Unwrap(old[<<x, y>>])).kind
        nf == IF kind = "Fire" THEN Len(Flammables(old, x, y)) ELSE 0
    IN  [coin : IF kind \in {"Powder", "Liquid", "Acid"} THEN BOOLEAN ELSE {TRUE},
         dx : IF kind \in {"Gas", "Fire"} THEN -1 .. 1 ELSE {0},
         dy : IF kind = "Gas" THEN -1 .. 1 ELSE IF kind = "Fire" THEN -2 .. 0 ELSE {0},
         picks : [1 .. nf -> 1 .. 4],
         ignite : [1 .. nf -> BOOLEAN]]

\* -------------------------------------------------------------- state

VARIABLES
    state,                 \* GameState: "Loading" or "Playing"
    cells,                 \* grid.cells, the live grid
    brush_size,            \* grid.brush_size, an index into BRUSH_SIZES
    selected,              \* grid.selected
    last_cursor_position,  \* LastCursorPosition, an Option of a coordinate
    pc,                    \* "idle", "ticking" (inside tick_grid's loop) or "panicked"
    new_cells,             \* tick_grid's local successor buffer
    visited,               \* the coordinates the loop has taken from coords
    writers,               \* t.w of the running tick
    lost,                  \* t.l of the running tick
    lit,                   \* t.f of the running tick
    gen,                   \* generations completed: the live grid is Live(gen)
    runs,                  \* runs of the input and drawing systems so far
    stroke,                \* the tiles of the last brush stroke, until a tick ends
    mesh,                  \* the quads of the GridMesh, one <<tile, colour>> each
    timer,                 \* grid.timer: elapsed, times_finished_this_tick
    expiries               \* the expiries of grid.timer since it was created

vars ==
    <<state, cells, brush_size, selected, last_cursor_position, pc, new_cells, visited,
      writers, lost, lit, gen, runs, stroke, mesh, timer, expiries>>

gridVars == <<brush_size, selected, last_cursor_position>>

tickVars == <<new_cells, visited, writers, lost, lit>>

timerVars == <<timer, expiries>>

\* Timer::new(Duration::from_secs_f32(TICK_RATE), TimerMode::Repeating)
\* (grid.rs:62)
NewTimer == [elapsed |-> 0, times_finished_this_tick |-> 0]

\* Timer::tick of a repeating timer: the elapsed time wraps at the period
\* and the timer records how many periods the delta completed.
TimerTick(tm, delta) ==
    [elapsed |-> (tm.elapsed + delta) % TICK_RATE,
     times_finished_this_tick |-> (tm.elapsed + delta) \div TICK_RATE]

\* Timer::just_finished
just_finished(tm) == tm.times_finished_this_tick > 0

\* const BRUSH_SIZES: [isize; 4] = [0, 2, 4, 8]; indexed from 0 in the source.
BRUSH_SIZES == <<0, 2, 4, 8>>

\* The most runs of the input and drawing systems in a run of the whole
\* application, and the most MouseWheel events read in one frame.
MaxRuns == 4

MaxScroll == 2

NoWriters == [c \in Coords |-> {}]

NoLoss == [id \in CellId |-> 0]

NoStroke == [tiles |-> {}, hit |-> {}]

\* The working record of the running tick.
Work == [n |-> new_cells, w |-> writers, l |-> lost, f |-> lit, p |-> FALSE]

\* ------------------------------------------------------------- systems

\* OnEnter(GameState::Playing): setup inserts the Grid resource.
setup ==
    /\ state = "Loading"
    /\ state' = "Playing"
    /\ cells' = EmptyGrid
    /\ brush_size' = 1
    /\ selected' = "Sand"
    /\ last_cursor_position' = None
    /\ mesh' = {}
    /\ timer' = NewTimer
    /\ UNCHANGED <<pc, tickVars, gen, runs, stroke, expiries>>

\* The systems without run_if(in_state(GameState::Playing)).
RunningUngated == pc = "idle"

\* The systems run in the Update schedule while the state is Playing; each
\* holds the Grid resource for the whole of its run.
Running == state = "Playing" /\ pc = "idle"

\* The keys with a ninth one for Wind, as the oldest revision has it
\* (particle.rs:582-583).
KeyIdWind == <<"Sand", "Stone", "Wood", "Water", "Oil", "Acid", "Oxygen", "Fire", "Wind">>

\* The material of each digit key, Digit1 .. Digit8.
KeyId == <<"Sand", "Stone", "Wood", "Water", "Oil", "Acid", "Oxygen", "Fire">>

\* select_tile: keys are the digit keys just pressed; the ifs run in the
\* order of the digits, so the last pressed digit's assignment stands.
select_tile(keys) ==
    /\ Running
    /\ runs < MaxRuns
    /\ keys # {}
    /\ selected' = KeyId[CHOOSE k \in keys : \A j \in keys : j <= k]
    /\ runs' = runs + 1
    /\ stroke' = NoStroke
    /\ UNCHANGED <<state, cells, brush_size, last_cursor_position, pc, tickVars, gen, mesh, timerVars>>

\* One MouseWheel event without the tests on grid.brush_size.
ScrollFree(b, ev) ==
    IF ev < 0 THEN b - 1
    ELSE IF ev > 0 THEN b + 1
    ELSE b

\* One MouseWheel event: ev is the sign of ev.y.
Scroll(b, ev) ==
    IF ev < 0 /\ b > 0 THEN b - 1
    ELSE IF ev > 0 /\ b < Len(BRUSH_SIZES) - 1 THEN b + 1
    ELSE b

RECURSIVE ScrollAll(_, _)
ScrollAll(b, evs) == IF evs = <<>> THEN b ELSE ScrollAll(Scroll(b, Head(evs)), Tail(evs))

\* update_brush_size: evs are the events read this frame.
update_brush_size(evs) ==
    /\ Running
    /\ runs < MaxRuns
    /\ brush_size' = ScrollAll(brush_size, evs)
    /\ runs' = runs + 1
    /\ stroke' = NoStroke
    /\ UNCHANGED <<state, cells, selected, last_cursor_position, pc, tickVars, gen, mesh, timerVars>>

\* Whether tile c is pushed for cursor position p (grid.rs:376-383): b is
\* the brush radius, and the tiles of Coords are those inside the grid.
InBrush(p, c, b) ==
    (c[1] - p[1]) * (c[1] - p[1]) + (c[2] - p[2]) * (c[2] - p[2]) <= b * b

Lo(a, b) == IF a < b THEN a ELSE b

Hi(a, b) == IF a < b THEN b ELSE a

Dist(a, b) == Hi(a, b) - Lo(a, b)

\* The cursor positions of a stroke (grid.rs:363-371).  Bresenham::new is
\* the line_drawing crate's; the model takes for its line any run of points
\* from last to cur with one point for each step along the longer axis, the
\* other coordinate between the two ends and never turning back.  i is the
\* longer axis (1 for x, 2 for y) and j the other.
Lines(a, cur, i, j) ==
    LET steps == Lo(a[i], cur[i]) .. Hi(a[i], cur[i])
        fs == {f \in [steps -> Lo(a[j], cur[j]) .. Hi(a[j], cur[j])] :
                  /\ f[a[i]] = a[j]
                  /\ f[cur[i]] = cur[j]
                  /\ \A u, v \in steps :
                        Dist(u, a[i]) <= Dist(v, a[i]) => Dist(f[u], a[j]) <= Dist(f[v], a[j])}
    IN  {{IF i = 1 THEN <<u, f[u]>> ELSE <<f[u], u>> : u \in steps} : f \in fs}

CursorPositions(last, cur) ==
    IF IsSome(last)
    THEN LET a == Unwrap(last)
         IN  IF Dist(a[1], cur[1]) >= Dist(a[2], cur[2])
             THEN Lines(a, cur, 1, 2)
             ELSE Lines(a, cur, 2, 1)
    ELSE {{cur}}

\* The entries of the Vec tiles that are tiles of S: one for each cursor
\* position of P and each tile of its brush (grid.rs:373-387).
Entries(P, S, b) == Cardinality({e \in P \X S : InBrush(e[1], e[2], b)})

\* tiles.shuffle(); tiles[..max(tiles.len() / 2, 1)] (grid.rs:389-392): the
\* sets of tiles the first max(len / 2, 1) entries of the shuffled Vec can be.
StrokeTiles(P, b) ==
    LET len == Entries(P, Coords, b)
        k == IF len \div 2 > 1 THEN len \div 2 ELSE 1
    IN  {S \in SUBSET {c \in Coords : Entries(P, {c}, b) > 0} :
            S # {} /\ Cardinality(S) <= k /\ Entries(P, S, b) >= k}

\* spawn_sand leaving the lifespan of the material out of the cell.
NewCellNoLife(id) == Cell(id, None)

\* The cell spawn_sand creates (grid.rs:394-397).
NewCell(id) == Cell(id, data(id).lifespan)

\* The loop over the chosen tiles without the is_none() test.
PlaceOverwrite(g, S, id) ==
    [c \in Coords |-> IF c \in S THEN Some(Cell(id, data(id).lifespan)) ELSE g[c]]

\* The loop over the chosen tiles (grid.rs:392-399).
Place(g, S, id) ==
    [c \in Coords |-> IF c \in S /\ g[c] = None THEN Some(NewCell(id)) ELSE g[c]]

Occupied(g) == {c \in Coords : IsSome(g[c])}

\* spawn_sand with the left button pressed and the cursor over tile cur: P
\* are the cursor positions of the stroke, S the tiles the shuffle leaves in
\* the first half of tiles.
spawn_sand(cur) ==
    /\ Running
    /\ runs < MaxRuns
    /\ \E P \in CursorPositions(last_cursor_position, cur) :
          \E S \in StrokeTiles(P, BRUSH_SIZES[brush_size + 1]) :
             /\ Cardinality(Occupied(Place(cells, S, selected))) <= MaxCells
             /\ cells' = Place(cells, S, selected)
             /\ stroke' = [tiles |-> S, hit |-> S \cap Occupied(cells)]
    /\ last_cursor_position' = Some(cur)
    /\ runs' = runs + 1
    /\ UNCHANGED <<state, brush_size, selected, pc, tickVars, gen, mesh, timerVars>>

\* spawn_sand with the left button up (grid.rs:404-406).
spawn_sand_released ==
    /\ Running
    /\ runs < MaxRuns
    /\ last_cursor_position' = None
    /\ runs' = runs + 1
    /\ stroke' = NoStroke
    /\ UNCHANGED <<state, cells, brush_size, selected, pc, tickVars, gen, mesh, timerVars>>

\* The quads draw_grid builds: one for each occupied slot, of the colour of
\* its material (grid.rs:420-455).
Quads(g) == {<<c, data(Unwrap(g[c]).id).color>> : c \in Occupied(g)}

\* draw_grid: the mesh is replaced only when there is a quad to draw
\* (grid.rs:457-473).
draw_grid ==
    /\ Running
    /\ runs < MaxRuns
    /\ mesh' = IF Quads(cells) # {} THEN Quads(cells) ELSE mesh
    /\ runs' = runs + 1
    /\ stroke' = NoStroke
    /\ UNCHANGED <<state, cells, gridVars, pc, tickVars, gen, timerVars>>

\* tick_grid starting its successor buffer empty instead of cloning the grid.
TickBeginEmpty(maxgen) ==
    /\ Running
    /\ gen < maxgen
    /\ pc' = "ticking"
    /\ new_cells' = EmptyGrid
    /\ visited' = Coords \ Occupied(cells)
    /\ writers' = NoWriters
    /\ lost' = NoLoss
    /\ lit' = 0
    /\ UNCHANGED <<state, cells, gridVars, gen, runs, stroke, mesh, timerVars>>

\* tick_grid when the timer has just finished: clone the grid and start the
\* loop over the shuffled coords (grid.rs:97-107).  A turn of the loop on an
\* empty slot does nothing (grid.rs:108), wherever it comes in the order, so
\* the empty slots of the snapshot count as taken from the start.  maxgen
\* bounds the run.
TickBegin(maxgen) ==
    /\ Running
    /\ gen < maxgen
    /\ pc' = "ticking"
    /\ new_cells' = cells
    /\ visited' = Coords \ Occupied(cells)
    /\ writers' = NoWriters
    /\ lost' = NoLoss
    /\ lit' = 0
    /\ UNCHANGED <<state, cells, gridVars, gen, runs, stroke, mesh, timerVars>>

\* tick_grid in one frame, delta being time.delta() (grid.rs:94-107): the
\* timer is ticked, and the loop over the shuffled coords starts only if the
\* timer has just finished, once however many periods the delta completed.
tick_grid(delta) ==
    /\ Running
    /\ \E tm \in {TimerTick(timer, delta)} :
          /\ expiries + tm.times_finished_this_tick <= MaxExpiries
          /\ timer' = tm
          /\ expiries' = expiries + tm.times_finished_this_tick
          /\ IF just_finished(tm)
             THEN /\ pc' = "ticking"
                  /\ new_cells' = cells
                  /\ visited' = Coords \ Occupied(cells)
                  /\ writers' = NoWriters
                  /\ lost' = NoLoss
                  /\ lit' = 0
             ELSE UNCHANGED <<pc, tickVars>>
    /\ UNCHANGED <<state, cells, gridVars, gen, runs, stroke, mesh>>

\* One turn of the loop writing the live grid in place as well.
VisitInPlace(c) ==
    /\ pc = "ticking"
    /\ c \notin visited
    /\ visited' = visited \cup {c}
    /\ \E r \in Draws(cells, c[1], c[2]) :
          \E t \in {VisitCell(cells, Work, c[1], c[2], r)} :
              /\ new_cells' = t.n
              /\ cells' = t.n
              /\ writers' = t.w
              /\ lost' = t.l
              /\ lit' = t.f
              /\ pc' = IF t.p THEN "panicked" ELSE pc
    /\ UNCHANGED <<state, gridVars, gen, runs, stroke, mesh, timerVars>>

\* One turn of the loop with a draw of its own that may drop the cell.
VisitUndeclared(c) ==
    /\ pc = "ticking"
    /\ c \notin visited
    /\ visited' = visited \cup {c}
    /\ \E r \in Draws(cells, c[1], c[2]) :
          \E t \in {VisitCell(cells, Work, c[1], c[2], r)} :
              /\ new_cells' \in {t.n, Put(t, c, None).n}
              /\ writers' = t.w
              /\ lost' = t.l
              /\ lit' = t.f
              /\ pc' = IF t.p THEN "panicked" ELSE pc
    /\ UNCHANGED <<state, cells, gridVars, gen, runs, stroke, mesh, timerVars>>

\* One turn of the loop on an occupied slot (grid.rs:107-339): coords is
\* shuffled, so the next coordinate is any that has not been taken.
Visit(c) ==
    /\ pc = "ticking"
    /\ c \notin visited
    /\ visited' = visited \cup {c}
    /\ \E r \in Draws(cells, c[1], c[2]) :
          \E t \in {VisitCell(cells, Work, c[1], c[2], r)} :
              /\ new_cells' = t.n
              /\ writers' = t.w
              /\ lost' = t.l
              /\ lit' = t.f
              /\ pc' = IF t.p THEN "panicked" ELSE pc
    /\ UNCHANGED <<state, cells, gridVars, gen, runs, stroke, mesh, timerVars>>

\* grid.cells = new_cells (grid.rs:341), after the loop.
TickEnd ==
    /\ pc = "ticking"
    /\ visited = Coords
    /\ cells' = new_cells
    /\ pc' = "idle"
    /\ new_cells' = EmptyGrid
    /\ visited' = {}
    /\ writers' = NoWriters
    /\ lost' = NoLoss
    /\ lit' = 0
    /\ gen' = gen + 1
    /\ stroke' = NoStroke
    /\ UNCHANGED <<state, gridVars, runs, mesh, timerVars>>

\* ------------------------------------------------------ specifications

\* The application as constructed: GameState defaults to Loading; the Grid
\* resource does not exist yet, its variables hold no stroke and no cell.
Init ==
    /\ state = "Loading"
    /\ cells = EmptyGrid
    /\ brush_size = 0
    /\ selected = "Sand"
    /\ last_cursor_position = None
    /\ pc = "idle"
    /\ new_cells = EmptyGrid
    /\ visited = {}
    /\ writers = NoWriters
    /\ lost = NoLoss
    /\ lit = 0
    /\ gen = 0
    /\ runs = 0
    /\ stroke = NoStroke
    /\ mesh = {}
    /\ timer = NewTimer
    /\ expiries = 0

ScrollEvents == UNION {[1 .. n -> {-1, 0, 1}] : n \in 1 .. MaxScroll}

Next ==
    \/ setup
    \/ \E k \in 1 .. Len(KeyId) : \E keys \in {{k}, 1 .. k} : select_tile(keys)
    \/ \E evs \in ScrollEvents : update_brush_size(evs)
    \/ \E cur \in Coords : spawn_sand(cur)
    \/ spawn_sand_released
    \/ draw_grid
    \/ TickBegin(MaxGen)
    \/ \E c \in Coords : Visit(c)
    \/ TickEnd

Spec == Init /\ [][Next]_vars

\* The loop of tick_grid runs to its end once the system has started: no
\* step of it waits on anything.
SpecLive == Spec /\ WF_vars(\E c \in Coords : Visit(c)) /\ WF_vars(TickEnd)

\* The materials select_tile offers.
Placeable == {KeyId[k] : k \in 1 .. Len(KeyId)}

\* A grid as brush strokes of single tiles leave it: the tiles of S hold
\* freshly placed cells of the materials f.
Placed(S, f) == [c \in Coords |-> IF c \in S THEN Some(NewCell(f[c])) ELSE None]

\* A running application between two ticks, with at most MaxCells freshly
\* placed cells on the grid.
InitTick ==
    /\ state = "Playing"
    /\ \E S \in {T \in SUBSET Coords : Cardinality(T) <= MaxCells} :
          \E f \in [S -> Placeable] : cells = Placed(S, f)
    /\ brush_size = 1
    /\ selected = "Sand"
    /\ last_cursor_position = None
    /\ pc = "idle"
    /\ new_cells = EmptyGrid
    /\ visited = {}
    /\ writers = NoWriters
    /\ lost = NoLoss
    /\ lit = 0
    /\ gen = 0
    /\ runs = 0
    /\ stroke = NoStroke
    /\ mesh = {}
    /\ timer = NewTimer
    /\ expiries = 0

NextTick ==
    \/ TickBegin(MaxGen)
    \/ \E c \in Coords : Visit(c)
    \/ TickEnd

SpecTick == InitTick /\ [][NextTick]_vars

\* A running application between two ticks whose grid holds one freshly
\* placed Fire cell and at most MaxCells - 1 freshly placed cells of
\* non-flammable materials, so that no tick lights another Fire cell.
Fireproof == {id \in Placeable : ~data(id).flammable /\ id # "Fire"}

InitFire ==
    /\ state = "Playing"
    /\ \E c \in Coords :
          \E S \in {T \in SUBSET (Coords \ {c}) : Cardinality(T) <= MaxCells - 1} :
             \E f \in [S -> Fireproof] :
                cells = Placed(S \cup {c}, [d \in S \cup {c} |-> IF d = c THEN "Fire" ELSE f[d]])
    /\ brush_size = 1
    /\ selected = "Fire"
    /\ last_cursor_position = None
    /\ pc = "idle"
    /\ new_cells = EmptyGrid
    /\ visited = {}
    /\ writers = NoWriters
    /\ lost = NoLoss
    /\ lit = 0
    /\ gen = 0
    /\ runs = 0
    /\ stroke = NoStroke
    /\ mesh = {}
    /\ timer = NewTimer
    /\ expiries = 0

NextFire ==
    \/ TickBegin(FireGen)
    \/ \E c \in Coords : Visit(c)
    \/ TickEnd

SpecFire == InitFire /\ [][NextFire]_vars

\* A running application between two ticks whose grid holds a single
\* freshly placed Powder cell and nothing else, and no input from then on.
Powders == {id \in Placeable : data(id).material.kind = "Powder"}

InitFall ==
    /\ state = "Playing"
    /\ \E c \in Coords : \E id \in Powders : cells = Placed({c}, [d \in {c} |-> id])
    /\ brush_size = 1
    /\ selected = "Sand"
    /\ last_cursor_position = None
    /\ pc = "idle"
    /\ new_cells = EmptyGrid
    /\ visited = {}
    /\ writers = NoWriters
    /\ lost = NoLoss
    /\ lit = 0
    /\ gen = 0
    /\ runs = 0
    /\ stroke = NoStroke
    /\ mesh = {}
    /\ timer = NewTimer
    /\ expiries = 0

NextFall ==
    \/ TickBegin(FallGen)
    \/ \E c \in Coords : Visit(c)
    \/ TickEnd

SpecFall == InitFall /\ [][NextFall]_vars

\* The lives a Fire cell can have at coordinate c between two ticks: a Fire
\* cell never comes to rest on the bottom row but by placement or ignition
\* there, and it keeps the catalog lifespan there; above it, each move takes
\* one unit off.
LivesAt(c) ==
    IF c[2] = GRID_HEIGHT - 1
    THEN {Unwrap(DATA_FIRE.lifespan)}
    ELSE 1 .. Unwrap(DATA_FIRE.lifespan)

\* A running application between two ticks, with at most MaxCells cells on
\* the grid, the Fire cells among them of any age.
InitBurn ==
    /\ state = "Playing"
    /\ \E S \in {T \in SUBSET Coords : Cardinality(T) <= MaxCells} :
          \E f \in [S -> Placeable] :
             \E a \in [S -> 1 .. Unwrap(DATA_FIRE.lifespan)] :
                /\ \A c \in S : a[c] \in (IF f[c] = "Fire" THEN LivesAt(c) ELSE {1})
                /\ cells = [c \in Coords |->
                               IF c \notin S THEN None
                               ELSE IF f[c] = "Fire" THEN Some(Cell("Fire", Some(a[c])))
                               ELSE Some(NewCell(f[c]))]
    /\ brush_size = 1
    /\ selected = "Fire"
    /\ last_cursor_position = None
    /\ pc = "idle"
    /\ new_cells = EmptyGrid
    /\ visited = {}
    /\ writers = NoWriters
    /\ lost = NoLoss
    /\ lit = 0
    /\ gen = 0
    /\ runs = 0
    /\ stroke = NoStroke
    /\ mesh = {}
    /\ timer = NewTimer
    /\ expiries = 0

SpecBurn == InitBurn /\ [][NextTick]_vars

\* A Grid value holding one Wind cell, fresh or on its last unit of life, and
\* at most MaxCells - 1 freshly placed cells.  Grid.cells is a public field
\* and CellId::Wind a material of the catalog; select_tile has no key for it.
InitWind ==
    /\ state = "Playing"
    /\ \E c \in Coords :
          \E life \in {1, Unwrap(DATA_WIND.lifespan)} :
             \E S \in {T \in SUBSET (Coords \ {c}) : Cardinality(T) <= MaxCells - 1} :
                \E f \in [S -> Placeable] :
                   cells = [d \in Coords |->
                               IF d = c THEN Some(Cell("Wind", Some(life)))
                               ELSE IF d \in S THEN Some(NewCell(f[d]))
                               ELSE None]
    /\ brush_size = 1
    /\ selected = "Sand"
    /\ last_cursor_position = None
    /\ pc = "idle"
    /\ new_cells = EmptyGrid
    /\ visited = {}
    /\ writers = NoWriters
    /\ lost = NoLoss
    /\ lit = 0
    /\ gen = 0
    /\ runs = 0
    /\ stroke = NoStroke
    /\ mesh = {}
    /\ timer = NewTimer
    /\ expiries = 0

SpecWind == InitWind /\ [][NextTick]_vars

\* The flammable materials select_tile offers.
Fuel == {id \in Placeable : data(id).flammable}

\* A running application between two ticks whose grid holds one Fire cell
\* above the bottom row, freshly placed or on its last but one unit of life,
\* and beside it, in its 4-neighbours, at most MaxCells freshly placed cells
\* of flammable materials.
InitSpread ==
    /\ state = "Playing"
    /\ \E c \in {d \in Coords : d[2] < GRID_HEIGHT - 1} :
          \E life \in {2, Unwrap(DATA_FIRE.lifespan)} :
             \E S \in {T \in SUBSET {d \in Coords : \E i \in 1 .. Len(adjacent(c[1], c[2])) :
                                                      adjacent(c[1], c[2])[i] = d} :
                          Cardinality(T) <= MaxCells} :
                \E f \in [S -> Fuel] :
                   cells = [d \in Coords |->
                               IF d = c THEN Some(Cell("Fire", Some(life)))
                               ELSE IF d \in S THEN Some(NewCell(f[d]))
                               ELSE None]
    /\ brush_size = 1
    /\ selected = "Fire"
    /\ last_cursor_position = None
    /\ pc = "idle"
    /\ new_cells = EmptyGrid
    /\ visited = {}
    /\ writers = NoWriters
    /\ lost = NoLoss
    /\ lit = 0
    /\ gen = 0
    /\ runs = 0
    /\ stroke = NoStroke
    /\ mesh = {}
    /\ timer = NewTimer
    /\ expiries = 0

SpecSpread == InitSpread /\ [][NextTick]_vars

\* The materials select_tile offers whose cells slide.
Sliders == {id \in Placeable : cell_slides(NewCell(id))}

\* A running application between two ticks whose grid holds a freshly placed
\* cell of a sliding material above the bottom row, a freshly placed cell
\* directly below it, and at most MaxCells - 1 freshly placed cells more.
InitSlope ==
    /\ state = "Playing"
    /\ \E c \in {d \in Coords : d[2] < GRID_HEIGHT - 1} :
          \E S \in {T \in SUBSET (Coords \ {c, <<c[1], c[2] + 1>>}) :
                       Cardinality(T) <= MaxCells - 1} :
             \E id \in Sliders :
                \E f \in [S \cup {<<c[1], c[2] + 1>>} -> Placeable] :
                   cells = [d \in Coords |->
                               IF d = c THEN Some(NewCell(id))
                               ELSE IF d \in DOMAIN f THEN Some(NewCell(f[d]))
                               ELSE None]
    /\ brush_size = 1
    /\ selected = "Sand"
    /\ last_cursor_position = None
    /\ pc = "idle"
    /\ new_cells = EmptyGrid
    /\ visited = {}
    /\ writers = NoWriters
    /\ lost = NoLoss
    /\ lit = 0
    /\ gen = 0
    /\ runs = 0
    /\ stroke = NoStroke
    /\ mesh = {}
    /\ timer = NewTimer
    /\ expiries = 0

SpecSlope == InitSlope /\ [][NextTick]_vars

\* The materials select_tile offers whose cells fill gaps.
Fillers == {id \in Placeable : data(id).material.kind \in {"Liquid", "Acid"}}

\* A running application between two ticks whose grid holds a floor of Stone
\* on the bottom row, on the row above it at least one freshly placed cell of
\* a gap-filling material and no other cell, and higher up at most
\* MaxCells - 1 freshly placed cells of any material.
InitGap ==
    /\ state = "Playing"
    /\ \E L \in SUBSET {d \in Coords : d[2] = GRID_HEIGHT - 2} :
          \E S \in {T \in SUBSET {d \in Coords : d[2] < GRID_HEIGHT - 2} :
                       Cardinality(T) <= MaxCells - 1} :
             \E f \in [L -> Fillers] :
                \E g \in [S -> Placeable] :
                   /\ L # {}
                   /\ cells = [d \in Coords |->
                                  IF d[2] = GRID_HEIGHT - 1 THEN Some(NewCell("Stone"))
                                  ELSE IF d \in L THEN Some(NewCell(f[d]))
                                  ELSE IF d \in S THEN Some(NewCell(g[d]))
                                  ELSE None]
    /\ brush_size = 1
    /\ selected = "Water"
    /\ last_cursor_position = None
    /\ pc = "idle"
    /\ new_cells = EmptyGrid
    /\ visited = {}
    /\ writers = NoWriters
    /\ lost = NoLoss
    /\ lit = 0
    /\ gen = 0
    /\ runs = 0
    /\ stroke = NoStroke
    /\ mesh = {}
    /\ timer = NewTimer
    /\ expiries = 0

SpecGap == InitGap /\ [][NextTick]_vars

\* A running application between two ticks whose grid holds a freshly placed
\* Fire cell, a freshly placed cell of a falling material directly above it,
\* and at most MaxCells - 1 more freshly placed cells.
Fallers == {id \in Placeable : cell_falls(NewCell(id))}

InitDouse ==
    /\ state = "Playing"
    /\ \E c \in {d \in Coords : d[2] > 0} :
          \E id \in Fallers :
             \E S \in {T \in SUBSET (Coords \ {c, <<c[1], c[2] - 1>>}) :
                          Cardinality(T) <= MaxCells - 1} :
                \E f \in [S -> Placeable] :
                   cells = [d \in Coords |->
                               IF d = c THEN Some(NewCell("Fire"))
                               ELSE IF d = <<c[1], c[2] - 1>> THEN Some(NewCell(id))
                               ELSE IF d \in S THEN Some(NewCell(f[d]))
                               ELSE None]
    /\ brush_size = 1
    /\ selected = "Fire"
    /\ last_cursor_position = None
    /\ pc = "idle"
    /\ new_cells = EmptyGrid
    /\ visited = {}
    /\ writers = NoWriters
    /\ lost = NoLoss
    /\ lit = 0
    /\ gen = 0
    /\ runs = 0
    /\ stroke = NoStroke
    /\ mesh = {}
    /\ timer = NewTimer
    /\ expiries = 0

SpecDouse == InitDouse /\ [][NextTick]_vars

\* A running application between two frames, its timer new, with at most
\* one freshly placed cell on the grid; the frames that follow have any
\* delta from 1 to MaxDelta.
InitTimer ==
    /\ state = "Playing"
    /\ \E S \in {T \in SUBSET Coords : Cardinality(T) <= 1} :
          \E f \in [S -> Placeable] : cells = Placed(S, f)
    /\ brush_size = 1
    /\ selected = "Sand"
    /\ last_cursor_position = None
    /\ pc = "idle"
    /\ new_cells = EmptyGrid
    /\ visited = {}
    /\ writers = NoWriters
    /\ lost = NoLoss
    /\ lit = 0
    /\ gen = 0
    /\ runs = 0
    /\ stroke = NoStroke
    /\ mesh = {}
    /\ timer = NewTimer
    /\ expiries = 0

NextTimer ==
    \/ \E delta \in 1 .. MaxDelta : tick_grid(delta)
    \/ \E c \in Coords : Visit(c)
    \/ TickEnd

SpecTimer == InitTimer /\ [][NextTimer]_vars

\* A running application with at most MaxCells freshly placed cells on the
\* grid, in which frames that draw and frames that tick follow one another.
NextDraw ==
    \/ draw_grid
    \/ TickBegin(MaxGen)
    \/ \E c \in Coords : Visit(c)
    \/ TickEnd

SpecDraw == InitTick /\ [][NextDraw]_vars

\* ------------------------------------------------------------- indices

Elems(seq) == {seq[i] : i \in 1 .. Len(seq)}

\* The index pairs the visit of the occupied slot <<x, y>> with draws r can
\* put into grid.cells[..][..] or new_cells[..][..], each under the test that
\* guards it in the source; a rule an earlier rule's continue would skip is
\* counted all the same.
Touched(old, x, y, r) ==
    LET cell == Unwrap(old[<<x, y>>])
        kind == cell_material(cell).kind
        above == IF y > 0 THEN {<<x, y - 1>>} ELSE {}
        below == IF cell_falls(cell) THEN {<<x, y + 1>>} ELSE {}
        slope == IF cell_slides(cell)
                 THEN (IF x > 0 THEN {<<x - 1, y + 1>>, <<x - 1, y>>} ELSE {})
                      \cup (IF x < GRID_WIDTH - 1 THEN {<<x + 1, y + 1>>, <<x + 1, y>>} ELSE {})
                 ELSE {}
        gaps == IF kind \in {"Liquid", "Acid"}
                THEN (IF x > 0
                      THEN {<<x - 1, y>>} \cup (IF y = 0 THEN {} ELSE {<<x - 1, y - 1>>})
                      ELSE {})
                     \cup (IF x < GRID_WIDTH - 1
                           THEN {<<x + 1, y>>} \cup (IF y = 0 THEN {} ELSE {<<x + 1, y - 1>>})
                           ELSE {})
                ELSE {}
        drift == IF kind \in {"Gas", "Fire"}
                 THEN {<<clamp(x + r.dx, 0, GRID_WIDTH - 1), clamp(y + r.dy, 0, GRID_HEIGHT - 1)>>}
                 ELSE {}
        flames == IF kind = "Fire"
                  THEN Elems(adjacent(x, y))
                       \cup UNION {Elems(adjacent(n[1], n[2])) :
                                      n \in Elems(adjacent(x, y)) \cap Coords}
                  ELSE {}
    IN  {<<x, y>>} \cup above
        \cup (IF y < GRID_HEIGHT - 1
              THEN below \cup slope \cup gaps \cup drift \cup flames
              ELSE {})

\* The tiles the brush loop pushes for cursor position p and radius b
\* (grid.rs:373-387).
BrushTiles(p, b) ==
    {c \in (p[1] - b .. p[1] + b) \X (p[2] - b .. p[2] + b) :
        /\ InBrush(p, c, b)
        /\ c[1] >= 0
        /\ c[1] < GRID_WIDTH
        /\ c[2] >= 0
        /\ c[2] < GRID_HEIGHT}

\* ---------------------------------------------------------- properties

\* The loop of tick_grid has visited every coordinate and the successor
\* buffer has not replaced the live grid yet: cells is the grid before the
\* tick and new_cells the grid after it.
EndOfTick == pc = "ticking" /\ visited = Coords

\* The number of cells of material id on grid g.
Count(g, id) == Cardinality({c \in Coords : IsSome(g[c]) /\ Unwrap(g[c]).id = id})

HasLife(o) == IsSome(o) /\ IsSome(Unwrap(o).life)

IsFire(o) == IsSome(o) /\ Unwrap(o).id = "Fire"

\* The step is a brush stroke of spawn_sand.
IsStroke == runs' # runs /\ stroke'.tiles # {}

\* C1 - Mass conservation, as its "in particular" states it: after a tick
\* every material has at least the cells it had before less those the
\* lifespan, acid and fire rules removed, and no more than it had before,
\* except Fire, which has at most those and the cells combustion lit.
C1_MassConservation ==
    EndOfTick =>
        \A id \in CellId :
            /\ Count(new_cells, id) >= Count(cells, id) - lost[id]
            /\ Count(new_cells, id) <= Count(cells, id) + (IF id = "Fire" THEN lit ELSE 0)

\* C2 - Conflict avoidance: within one run of tick_grid no slot of the
\* successor buffer is written by the rules of two different sources, the
\* two cells of one vertical pair doing the same float/fall swap being one
\* source.
C2_ConflictAvoidance == \A c \in Coords : Cardinality(writers[c]) <= 1

\* C3 - Tick atomicity: while a tick runs the live grid and the mesh do not
\* change; the live grid is replaced by the successor buffer in one step and
\* only when every coordinate has been visited; draw_grid and spawn_sand run
\* only between ticks, and draw_grid draws the live grid; a tick that has
\* started comes to the replacement of the live grid.
C3_TickAtomicity ==
    /\ [][/\ (pc = "ticking" /\ pc' = "ticking") => (cells' = cells /\ mesh' = mesh)
          /\ (pc = "ticking" /\ pc' = "idle") => (visited = Coords /\ cells' = new_cells)
          /\ mesh' # mesh => (pc = "idle" /\ pc' = "idle" /\ mesh' = Quads(cells))
          /\ IsStroke => (pc = "idle" /\ pc' = "idle")]_vars
    /\ \A n \in 0 .. MaxGen : (pc = "ticking" /\ gen = n) ~> (pc = "idle" /\ gen = n + 1)

\* A tick has visited every coordinate and built a successor buffer that
\* differs from the live grid, which still is the grid the tick started on.
C3_Witness == EndOfTick /\ new_cells # cells /\ Occupied(cells) # {}

\* C4 - Idempotent placement: a brush stroke leaves every occupied slot as it
\* was, material and remaining life, and a stroke on the tiles of the stroke
\* just before it leaves the whole grid as it was.
C4_IdempotentPlacement ==
    [][/\ IsStroke => \A c \in Coords : IsSome(cells[c]) => cells'[c] = cells[c]
       /\ (IsStroke /\ stroke'.tiles = stroke.tiles) => cells' = cells]_vars

\* A stroke of one material has run over a slot that holds another.
C4_Witness ==
    \E c \in stroke.hit : IsSome(cells[c]) /\ Unwrap(cells[c]).id # selected

\* C5 - Successful placement: after a brush stroke every tile of the stroke
\* that was empty holds a cell of the selected material whose remaining life
\* is 20 for Fire and none for the other materials, and every other slot is
\* as it was.
C5_SuccessfulPlacement ==
    [][IsStroke =>
          \A c \in Coords :
              cells'[c] = IF c \in stroke'.tiles /\ cells[c] = None
                          THEN Some([id |-> selected,
                                     life |-> IF selected = "Fire" THEN Some(20) ELSE None])
                          ELSE cells[c]]_vars

\* A stroke of Fire has filled an empty slot.
C5_Witness ==
    /\ selected = "Fire"
    /\ \E c \in stroke.tiles \ stroke.hit : cells[c] = Some([id |-> "Fire", life |-> Some(20)])

\* C6 - Placement and tick never interleave: a brush stroke runs only
\* between ticks, and the tick that starts next leaves the live grid as it
\* is and takes the whole of it as its successor buffer, the tiles of the
\* stroke included.
C6_PlacementBetweenTicks ==
    [][/\ IsStroke => (pc = "idle" /\ pc' = "idle")
       /\ (pc = "idle" /\ pc' = "ticking") =>
              /\ cells' = cells
              /\ new_cells' = cells
              /\ \A c \in stroke.tiles : IsSome(new_cells'[c])]_vars

\* A tick is running on a grid whose last stroke filled an empty slot, and
\* its successor buffer started with the cell of that slot.
C6_Witness ==
    /\ pc = "ticking"
    /\ visited = Coords \ Occupied(cells)
    /\ \E c \in stroke.tiles \ stroke.hit : IsSome(cells[c]) /\ new_cells[c] = cells[c]

\* C7 - Lifespan decay: after a tick no cell has a remaining life of zero,
\* and the remaining life of every cell that has one, unless the tick lit
\* it, is one less than that of a cell of its material before the tick.
C7_LifespanDecay ==
    EndOfTick =>
        \A d \in Coords :
            HasLife(new_cells[d]) =>
                LET cell == Unwrap(new_cells[d])
                IN  /\ Unwrap(cell.life) # 0
                    /\ \/ lit > 0 /\ cell = NewCell("Fire")
                       \/ \E c \in Coords :
                             /\ HasLife(cells[c])
                             /\ Unwrap(cells[c]).id = cell.id
                             /\ Unwrap(Unwrap(cells[c]).life) = Unwrap(cell.life) + 1

\* C8 - Fire lifespan: on a grid where nothing burns, the Fire cell placed
\* with a remaining life of 20 has, after n ticks, a remaining life of
\* 20 - n if it is still there, and is not there after 20 ticks.
C8_FireLifespan ==
    pc = "idle" =>
        \A c \in Coords :
            IsFire(cells[c]) => (gen < 20 /\ Unwrap(cells[c]).life = Some(20 - gen))

\* C9 - Extinguishing: when a tick starts with a falling cell of a
\* non-flammable Powder, Solid or Liquid directly above a Fire cell, the
\* tick ends with that cell in the slot of the Fire cell.
C9_Extinguishing ==
    EndOfTick =>
        \A c \in Coords :
            (/\ c[2] < GRID_HEIGHT - 1
             /\ IsSome(cells[c])
             /\ cell_falls(Unwrap(cells[c]))
             /\ ~cell_flammable(Unwrap(cells[c]))
             /\ cell_material(Unwrap(cells[c])).kind # "Acid"
             /\ IsFire(cells[<<c[1], c[2] + 1>>]))
            => new_cells[<<c[1], c[2] + 1>>] = cells[c]

\* Liquid cells one directly above the other at c, the upper one of density
\* up and the lower one of density low.
Stacked(g, c, up, low) ==
    /\ c[2] < GRID_HEIGHT - 1
    /\ IsSome(g[c])
    /\ IsSome(g[<<c[1], c[2] + 1>>])
    /\ cell_material(Unwrap(g[c])) = Material("Liquid", up)
    /\ cell_material(Unwrap(g[<<c[1], c[2] + 1>>])) = Material("Liquid", low)

Swapped(c) ==
    /\ new_cells[c] = cells[<<c[1], c[2] + 1>>]
    /\ new_cells[<<c[1], c[2] + 1>>] = cells[c]

\* C10 as stated - a Liquid of the lower density directly above a Liquid of
\* the higher density: one tick swaps them.
C10_Original ==
    EndOfTick =>
        \A c \in Coords : \A a, b \in 0 .. 1 :
            (a < b /\ Stacked(cells, c, a, b)) => Swapped(c)

\* C10 - Density ordering: on a grid that holds only a Liquid of the higher
\* density directly above a Liquid of the lower density, one tick swaps them;
\* where the Liquid of the lower density is the upper one, no tick swaps
\* them.
C10_DensityOrdering ==
    EndOfTick =>
        \A c \in Coords : \A a, b \in 0 .. 1 :
            /\ (a < b /\ Stacked(cells, c, b, a) /\ Cardinality(Occupied(cells)) = 2)
                   => Swapped(c)
            /\ (a < b /\ Stacked(cells, c, a, b)) => ~Swapped(c)

\* Water was directly above Oil and the tick has swapped them.
C10_Witness ==
    /\ EndOfTick
    /\ \E c \in Coords : Stacked(cells, c, 1, 0) /\ Swapped(c)

\* The slot below c, or c itself on the bottom row.
Down(c) == <<c[1], IF c[2] < GRID_HEIGHT - 1 THEN c[2] + 1 ELSE c[2]>>

\* C11 - Gravity terminal state: the single Powder cell of an otherwise empty
\* grid is, after n ticks, at least n rows down or on the bottom row, so it
\* is on the bottom row within GRID_HEIGHT - 1 ticks; every tick takes the
\* cell at c to the slot below c in the same column, and leaves it where it
\* is once it is on the bottom row.
C11_GravityTerminal ==
    /\ [](pc = "idle" =>
              /\ Cardinality(Occupied(cells)) = 1
              /\ \A c \in Occupied(cells) : c[2] >= gen \/ c[2] = GRID_HEIGHT - 1)
    /\ [][(pc = "ticking" /\ pc' = "idle") =>
              \A c \in Occupied(cells) :
                  cells' = [d \in Coords |-> IF d = Down(c) THEN cells[c] ELSE None]]_vars

\* A tick has taken the Powder cell from the top row to the row below it,
\* in the same column.
C11_Witness ==
    /\ EndOfTick
    /\ \E x \in 0 .. GRID_WIDTH - 1 :
          /\ IsSome(cells[<<x, 0>>])
          /\ new_cells = [d \in Coords |-> IF d = <<x, 1>> THEN cells[<<x, 0>>] ELSE None]

IsAcid(o) == IsSome(o) /\ cell_material(Unwrap(o)).kind = "Acid"

\* The slots directly below and diagonally below c.
BelowSlots(c) == {d \in Coords : d[2] = c[2] + 1 /\ d[1] \in {c[1] - 1, c[1], c[1] + 1}}

\* C12 - Acid dissolution: when a tick starts with an Acid cell that has a
\* cell of another material directly below or diagonally below it, the tick
\* ends with one Acid cell less and one cell of that material less (Fire
\* cells lit by the tick apart); a grid of two Acid cells one above the other
\* keeps both.
C12_AcidDissolution ==
    EndOfTick =>
        /\ \A c \in Coords : \A d \in BelowSlots(c) :
               (IsAcid(cells[c]) /\ IsSome(cells[d]) /\ ~IsAcid(cells[d])) =>
                   /\ Count(new_cells, "Acid") < Count(cells, "Acid")
                   /\ Count(new_cells, Unwrap(cells[d]).id)
                          < Count(cells, Unwrap(cells[d]).id)
                            + (IF Unwrap(cells[d]).id = "Fire" THEN lit ELSE 0)
        /\ \A c \in Coords :
               (/\ c[2] < GRID_HEIGHT - 1
                /\ IsAcid(cells[c])
                /\ IsAcid(cells[<<c[1], c[2] + 1>>])
                /\ Cardinality(Occupied(cells)) = 2)
               => Count(new_cells, "Acid") = 2

\* The working record a tick starts with on grid g.
Fresh(g) == [n |-> g, w |-> NoWriters, l |-> NoLoss, f |-> 0, p |-> FALSE]

\* The successor buffers a tick on grid g can end with, from working record
\* t with the coordinates todo still to visit: one for each order of the
\* visits and each sequence of draws, and a function of nothing else.
RECURSIVE Outcomes(_, _, _)
Outcomes(g, t, todo) ==
    IF todo = {} THEN {t.n}
    ELSE UNION {UNION {Outcomes(g, VisitCell(g, t, c[1], c[2], r), todo \ {c}) :
                          r \in Draws(g, c[1], c[2])} : c \in todo}

LivesInRange(g) ==
    \A c \in Coords :
        HasLife(g[c]) =>
            /\ Unwrap(Unwrap(g[c]).life) >= 1
            /\ IsSome(data(Unwrap(g[c]).id).lifespan)
            /\ Unwrap(Unwrap(g[c]).life) <= Unwrap(data(Unwrap(g[c]).id).lifespan)

\* C14 - A lifespan is never decremented at zero: every remaining life
\* stored on the live grid or in the successor buffer is between 1 and the
\* catalog lifespan of its material, so the u8 decrement of a visit starts
\* from at least 1.
C14_LifeInRange == LivesInRange(cells) /\ LivesInRange(new_cells)

\* A tick has run on a grid with a Fire cell on its last unit of life, and
\* has removed it.
C14_Witness ==
    /\ EndOfTick
    /\ \E c \in Coords :
          IsFire(cells[c]) /\ Unwrap(cells[c]).life = Some(1) /\ new_cells[c] = None
    /\ lost["Fire"] > 0

\* C15 - Bounds safety: every index pair a visit of tick_grid can compute,
\* for every occupied slot of the live grid and every draw, is a coordinate
\* of the grid; every tile the brush pushes around the cursor position of
\* the last stroke, at the brush size in use, is one, and the cursor's own
\* tile is among them, so the slice of the shuffled tiles is never empty;
\* the tiles of a stroke are coordinates of the grid.
C15_BoundsSafety ==
    /\ DOMAIN cells = Coords
    /\ DOMAIN new_cells = Coords
    /\ \A c \in Occupied(cells) : \A r \in Draws(cells, c[1], c[2]) :
           Touched(cells, c[1], c[2], r) \subseteq Coords
    /\ brush_size + 1 \in 1 .. Len(BRUSH_SIZES)
    /\ IsSome(last_cursor_position) =>
           LET p == Unwrap(last_cursor_position)
               b == BRUSH_SIZES[brush_size + 1]
           IN  /\ p \in Coords
               /\ BrushTiles(p, b) \subseteq Coords
               /\ p \in BrushTiles(p, b)
               /\ BrushTiles(p, b) = {c \in Coords : InBrush(p, c, b)}
    /\ stroke.tiles \subseteq Coords

\* After a stroke, a tick has run to its end on a grid with a Gas or Fire
\* cell whose drawn offset, before the clamp, points outside the grid.
C15_Witness ==
    /\ EndOfTick
    /\ IsSome(last_cursor_position)
    /\ \E c \in Occupied(cells) : \E r \in Draws(cells, c[1], c[2]) :
          /\ cell_material(Unwrap(cells[c])).kind \in {"Gas", "Fire"}
          /\ <<c[1] + r.dx, c[2] + r.dy>> \notin Coords
          /\ Touched(cells, c[1], c[2], r) \subseteq Coords

\* No rule fires in the visit of the occupied slot c of grid g, whatever the
\* draws, and no rule of another cell of g can read or write slot c.
Unselected(g, c) ==
    /\ \A r \in Draws(g, c[1], c[2]) : VisitCell(g, Fresh(g), c[1], c[2], r) = Fresh(g)
    /\ \A d \in Occupied(g) \ {c} : \A r \in Draws(g, d[1], d[2]) :
           c \notin Touched(g, d[1], d[2], r)

\* C16 - Persistence of unselected cells: the successor buffer starts as a
\* copy of the snapshot, and a cell that no rule fires for in its own visit,
\* in a slot no other cell's rule reaches, is in the same slot, the same
\* cell, when the tick ends.
C16_Persistence ==
    /\ (pc = "ticking" /\ visited = Coords \ Occupied(cells) /\ writers = NoWriters)
           => new_cells = cells
    /\ EndOfTick =>
           \A c \in Occupied(cells) : Unselected(cells, c) => new_cells[c] = cells[c]

\* A tick has run to its end, has moved a cell, and has left a cell no rule
\* selected where it was.
C16_Witness ==
    /\ EndOfTick
    /\ new_cells # cells
    /\ \E c \in Occupied(cells) : Unselected(cells, c) /\ new_cells[c] = cells[c]

\* a is Powder or Solid and b Liquid or Gas, or both are Liquid and a is the
\* denser.
SinksByClass(a, b) ==
    \/ a.kind \in {"Powder", "Solid"} /\ b.kind \in {"Liquid", "Gas"}
    \/ a.kind = "Liquid" /\ b.kind = "Liquid" /\ a.density > b.density

\* C17 as stated - for every cell a of the grid and every slot b of it,
\* a.sinks_under(b) is true exactly when b is empty, or a is Powder or Solid
\* and b is Liquid or Gas, or both are Liquid and a is the denser; it is
\* false for Liquid over Gas.
C17_Original ==
    \A c \in Occupied(cells) : \A d \in Coords :
        sinks_under(data(Unwrap(cells[c]).id), cells[d])
            <=> \/ cells[d] = None
                \/ SinksByClass(cell_material(Unwrap(cells[c])),
                                cell_material(Unwrap(cells[d])))

\* C17 - sinks_under relation: for every cell a of the grid and every slot
\* b of it, a.sinks_under(b) is true exactly when b is empty, or a is Powder
\* or Solid and b is Liquid or Gas, or both are Liquid and a is the denser,
\* or a is Liquid and b is Gas; it is false for every other pair.
C17_SinksUnder ==
    \A c \in Occupied(cells) : \A d \in Coords :
        sinks_under(data(Unwrap(cells[c]).id), cells[d])
            <=> \/ cells[d] = None
                \/ SinksByClass(cell_material(Unwrap(cells[c])),
                                cell_material(Unwrap(cells[d])))
                \/ /\ cell_material(Unwrap(cells[c])).kind = "Liquid"
                   /\ cell_material(Unwrap(cells[d])).kind = "Gas"

\* A Liquid cell was directly above a Gas cell and the tick has swapped them.
C17_Witness ==
    /\ EndOfTick
    /\ \E c \in Coords :
          /\ c[2] < GRID_HEIGHT - 1
          /\ IsSome(cells[c])
          /\ IsSome(cells[<<c[1], c[2] + 1>>])
          /\ cell_material(Unwrap(cells[c])).kind = "Liquid"
          /\ cell_material(Unwrap(cells[<<c[1], c[2] + 1>>])).kind = "Gas"
          /\ Swapped(c)

\* C18 - falls() classification: for every cell of the grid above the bottom
\* row and every draw, the visit of a Gas, Fire or Wind cell passes the
\* gravity-fall and falling-onto-fire rules by and goes on to the slide; the
\* visit of a Powder, Solid, Liquid or Acid cell falls when the fall test
\* holds, and otherwise, directly above a Fire cell, goes out on it.
C18_FallsClassification ==
    \A c \in Occupied(cells) : \A r \in Draws(cells, c[1], c[2]) :
        LET cell == Decay(Unwrap(cells[c]))
            kind == cell_material(cell).kind
            t == Fresh(cells)
        IN  c[2] < GRID_HEIGHT - 1 =>
                /\ kind \in {"Gas", "Fire", "Wind"} =>
                       /\ ~cell_falls(cell)
                       /\ Lower(cells, t, c[1], c[2], cell, r)
                              = Slide(cells, t, c[1], c[2], cell, r)
                /\ kind \in {"Powder", "Solid", "Liquid", "Acid"} =>
                       /\ cell_falls(cell)
                       /\ FallCond(cells, c[1], c[2], cell) =>
                              Lower(cells, t, c[1], c[2], cell, r)
                                  = Fall(cells, t, c[1], c[2], cell)
                       /\ (~FallCond(cells, c[1], c[2], cell) /\ OnFire(cells, c[1], c[2])) =>
                              Lower(cells, t, c[1], c[2], cell, r)
                                  = Extinguish(t, c[1], c[2], cell)

\* A tick has run on a grid with nothing but a Gas cell above an empty slot,
\* and the cell has not fallen: it is where it was.
C18_Witness ==
    /\ EndOfTick
    /\ Cardinality(Occupied(cells)) = 1
    /\ new_cells = cells
    /\ \E c \in Occupied(cells) :
          c[2] < GRID_HEIGHT - 1 /\ cell_material(Unwrap(cells[c])).kind = "Gas"

\* C19 - slides() classification: for every cell of the grid above the
\* bottom row and every draw, the slide rule leaves a Solid, Gas, Fire or
\* Wind cell to the rule of its material; a Powder, Liquid or Acid cell
\* slides to the side the slope tests and the coin give, when they give one.
C19_SlidesClassification ==
    \A c \in Occupied(cells) : \A r \in Draws(cells, c[1], c[2]) :
        LET cell == Decay(Unwrap(cells[c]))
            kind == cell_material(cell).kind
            t == Fresh(cells)
            x == c[1]
            y == c[2]
            nx == Side(BelowSide(cells, t, x, y, cell, x - 1),
                       BelowSide(cells, t, x, y, cell, x + 1), r.coin, x)
        IN  y < GRID_HEIGHT - 1 =>
                /\ kind \in {"Solid", "Gas", "Fire", "Wind"} =>
                       /\ ~cell_slides(cell)
                       /\ Slide(cells, t, x, y, cell, r) = MaterialRule(cells, t, x, y, cell, r)
                /\ kind \in {"Powder", "Liquid", "Acid"} =>
                       /\ cell_slides(cell)
                       /\ nx >= 0 =>
                              Slide(cells, t, x, y, cell, r) = SlideTo(cells, t, x, y, cell, nx)

\* A tick has run on a grid of two Solid cells, one on the other, beside an
\* empty column, and the upper one has not slid: both are where they were.
C19_Witness ==
    /\ EndOfTick
    /\ new_cells = cells
    /\ Cardinality(Occupied(cells)) = 2
    /\ \E c \in Occupied(cells) :
          /\ c[2] = GRID_HEIGHT - 2
          /\ cell_material(Unwrap(cells[c])).kind = "Solid"
          /\ IsSome(cells[<<c[1], c[2] + 1>>])
          /\ cell_material(Unwrap(cells[<<c[1], c[2] + 1>>])).kind = "Solid"

\* Grid g has one slot for each of the GRID_WIDTH x GRID_HEIGHT coordinates
\* and each slot holds nothing or one cell of a material of the catalog.
WellShaped(g) ==
    /\ DOMAIN g = (0 .. GRID_WIDTH - 1) \X (0 .. GRID_HEIGHT - 1)
    /\ Cardinality(DOMAIN g) = GRID_WIDTH * GRID_HEIGHT
    /\ \A c \in DOMAIN g :
           \/ g[c] = None
           \/ /\ Len(g[c]) = 1
              /\ DOMAIN g[c][1] = {"id", "life"}
              /\ g[c][1].id \in CellId

\* C20 - Occupancy and shape invariant: in every state of the application
\* the live grid, and the successor buffer of a running tick, have one slot
\* for each coordinate of the grid, and every slot holds nothing or exactly
\* one cell.
C20_Shape == WellShaped(cells) /\ (pc = "ticking" => WellShaped(new_cells))

\* Placements and a whole tick have passed and the grid holds cells.
C20_Witness ==
    /\ state = "Playing"
    /\ pc = "idle"
    /\ gen > 0
    /\ Occupied(cells) # {}

IsWind(o) == IsSome(o) /\ Unwrap(o).id = "Wind"

Buoyant(g, c) ==
    LET b == <<c[1], c[2] + 1>>
    IN  /\ c[2] < GRID_HEIGHT - 1
        /\ IsSome(g[c])
        /\ IsSome(g[b])
        /\ cell_sinks_under(Unwrap(g[c]), g[b])
        /\ ~HasLife(g[c])
        /\ ~HasLife(g[b])
        /\ \A d \in Occupied(g) \ {c, b} : \A r \in Draws(g, d[1], d[2]) :
               Touched(g, d[1], d[2], r) \cap {c, b} = {}

\* C22 - Buoyancy is independent of the visit order: for a pair of the
\* snapshot where the upper cell sinks under the lower one, as soon as the
\* loop has visited either of the two, and from then to the end of the tick,
\* the successor buffer holds the two cells exchanged; the visit of the lower
\* cell is the float swap and nothing else, whatever its draws.
C22_Buoyancy ==
    pc = "ticking" =>
        \A c \in Coords :
            Buoyant(cells, c) =>
                LET b == <<c[1], c[2] + 1>>
                IN  /\ ({c, b} \cap visited # {}) => Swapped(c)
                    /\ \A r \in Draws(cells, b[1], b[2]) :
                           VisitCell(cells, Fresh(cells), b[1], b[2], r)
                               = Float(cells, Fresh(cells), b[1], b[2], Unwrap(cells[b]))

\* The loop has visited the lower cell of such a pair and not yet the upper
\* one, and the two are exchanged.
C22_Witness ==
    /\ pc = "ticking"
    /\ \E c \in Coords :
          /\ Buoyant(cells, c)
          /\ <<c[1], c[2] + 1>> \in visited
          /\ c \notin visited
          /\ Swapped(c)

\* C23 - Only the gravity fall is restricted to the cells above the bottom
\* row: when a tick has run on a grid whose only cell is on the bottom row,
\* the successor buffer is one that the rule of the cell's material gives
\* for some draw (a Liquid or Acid fills a gap, a Gas disperses, a Fire
\* spreads and rises), as on any other row.
C23_BottomRow ==
    EndOfTick =>
        \A c \in Occupied(cells) :
            (c[2] = GRID_HEIGHT - 1 /\ Cardinality(Occupied(cells)) = 1) =>
                new_cells \in
                    {MaterialRule(cells, Fresh(cells), c[1], c[2], Decay(Unwrap(cells[c])), r).n :
                        r \in Draws(cells, c[1], c[2])}

\* The cell at c of grid g is a falling cell that is not Acid, directly
\* above an Acid cell, and no cell above it floats under it.
OverAcid(g, c) ==
    /\ c[2] < GRID_HEIGHT - 1
    /\ IsSome(g[c])
    /\ cell_falls(Unwrap(g[c]))
    /\ ~IsAcid(g[c])
    /\ IsAcid(g[<<c[1], c[2] + 1>>])
    /\ ~FloatCond(g, c[1], c[2], Unwrap(g[c]))

\* C24 - Acid contact from below ends the visit: the turn of the loop on a
\* falling non-Acid cell directly above an Acid cell clears the two slots in
\* the successor buffer and writes nothing else.
C24_AcidContact ==
    [][\A c \in Coords :
          (pc = "ticking" /\ c \notin visited /\ c \in visited' /\ OverAcid(cells, c))
              => new_cells' = [new_cells EXCEPT ![c] = None, ![<<c[1], c[2] + 1>>] = None]]_vars

\* Slot d of buffer g holds a cell that is not flammable.
Fireproofed(g, d) == IsSome(g[d]) /\ ~cell_flammable(Unwrap(g[d]))

\* C25 - Fire rise never destroys a non-flammable cell: the turn of the loop
\* on a Fire cell whose lifespan does not expire leaves every non-flammable
\* cell of the successor buffer where it is, but for the Fire cell itself
\* when it still is in its own slot.
C25_FireRise ==
    [][\A c \in Coords :
          (/\ pc = "ticking"
           /\ c \notin visited
           /\ c \in visited'
           /\ IsFire(cells[c])
           /\ ~Expired(Decay(Unwrap(cells[c]))))
              => \A d \in Coords :
                     (Fireproofed(new_cells, d) /\ ~(d = c /\ new_cells[c] = cells[c]))
                         => new_cells'[d] = new_cells[d]]_vars

IsGas(o) == IsSome(o) /\ cell_material(Unwrap(o)).kind = "Gas"

\* The clamped destinations (x + dx, y + dy) of c, dx and dy in -1 .. 1.
Around(c) ==
    {<<clamp(c[1] + dx, 0, GRID_WIDTH - 1), clamp(c[2] + dy, 0, GRID_HEIGHT - 1)>> :
        dx \in -1 .. 1, dy \in -1 .. 1}

\* C26 - Gas diffusion: the turn of the loop on a Gas cell that does not
\* float either leaves the successor buffer as it is, or moves the cell to
\* one of its clamped destinations, and that only when the destination is
\* empty both in the snapshot and in the successor buffer before the turn;
\* the cell is never moved onto its own slot.
C26_GasDiffusion ==
    [][\A c \in Coords :
          (/\ pc = "ticking"
           /\ c \notin visited
           /\ c \in visited'
           /\ IsGas(cells[c])
           /\ ~FloatCond(cells, c[1], c[2], Unwrap(cells[c])))
              => \/ new_cells' = new_cells
                 \/ \E d \in Around(c) :
                       /\ d # c
                       /\ cells[d] = None
                       /\ new_cells[d] = None
                       /\ new_cells' = [new_cells EXCEPT ![c] = None, ![d] = cells[c]]]_vars

\* A tick has run on two cells, one of them a Gas cell that has moved to a
\* slot that was empty, the other one where it was.
C26_Witness ==
    /\ EndOfTick
    /\ Cardinality(Occupied(cells)) = 2
    /\ \E c \in Occupied(cells) : \E d \in Around(c) :
          /\ IsGas(cells[c])
          /\ cells[d] = None
          /\ new_cells = [cells EXCEPT ![c] = None, ![d] = cells[c]]

\* C27 - Combustion spread targets: for every Fire cell above the bottom row
\* that the loop has still to visit and that does not expire, and every draw, the loop over its flammable neighbours changes
\* the successor buffer only in slots that are empty in the snapshot and in
\* the successor buffer and 4-adjacent to a flammable 4-neighbour of the
\* fire, where it puts a Fire cell, and in slots 4-adjacent to the fire that
\* hold a flammable cell in the snapshot, which it turns into Fire; it lights
\* at most one empty slot and turns at most one cell for each flammable
\* neighbour.
C27_SpreadTargets ==
    pc = "ticking" =>
        \A c \in Coords \ visited :
            (/\ IsFire(cells[c])
             /\ c[2] < GRID_HEIGHT - 1
             /\ ~Expired(Decay(Unwrap(cells[c])))) =>
                \A r \in Draws(cells, c[1], c[2]) :
                    LET cell == Decay(Unwrap(cells[c]))
                        fl == Flammables(cells, c[1], c[2])
                        t == SpreadFlames(cells, Work, fl, 1, cell, r)
                        changed == {d \in Coords : t.n[d] # new_cells[d]}
                        spawned == {d \in changed : cells[d] = None}
                    IN  /\ \A d \in spawned :
                               /\ new_cells[d] = None
                               /\ IsFire(t.n[d])
                               /\ \E n \in Elems(adjacent(c[1], c[2])) :
                                     /\ IsSome(cells[n])
                                     /\ cell_flammable(Unwrap(cells[n]))
                                     /\ d \in Elems(adjacent(n[1], n[2]))
                        /\ \A d \in changed \ spawned :
                               /\ d \in Elems(adjacent(c[1], c[2]))
                               /\ cell_flammable(Unwrap(cells[d]))
                               /\ IsFire(t.n[d])
                        /\ Cardinality(spawned) <= Len(fl)
                        /\ Cardinality(changed \ spawned) <= Len(fl)
                        /\ t.f - lit <= 2 * Len(fl)

\* The loop has visited a Fire cell with a flammable neighbour: the neighbour
\* has been turned into Fire and an empty slot beside it has been lit.
C27_Witness ==
    /\ pc = "ticking"
    /\ \E c \in visited : \E n \in Elems(adjacent(c[1], c[2])) :
          \E d \in Elems(adjacent(n[1], n[2])) :
             /\ IsFire(cells[c])
             /\ IsSome(cells[n])
             /\ cell_flammable(Unwrap(cells[n]))
             /\ new_cells[n] = Some(Flame(Unwrap(cells[c])))
             /\ cells[d] = None
             /\ new_cells[d] = Some(Flame(Unwrap(cells[c])))

\* C28 - Every Fire cell combustion spread creates starts with the catalog
\* lifespan of Fire: for every Fire cell above the bottom row that the loop
\* has still to visit and that does not expire, whatever its remaining life,
\* and every draw, each slot the loop over its flammable neighbours writes
\* holds a Fire cell of life 20.
C28_SpreadLifespan ==
    pc = "ticking" =>
        \A c \in Coords \ visited :
            (/\ IsFire(cells[c])
             /\ c[2] < GRID_HEIGHT - 1
             /\ ~Expired(Decay(Unwrap(cells[c])))) =>
                \A r \in Draws(cells, c[1], c[2]) :
                    LET cell == Decay(Unwrap(cells[c]))
                        t == SpreadFlames(cells, Work, Flammables(cells, c[1], c[2]), 1, cell, r)
                    IN  \A d \in Coords :
                            t.n[d] # new_cells[d] => t.n[d] = Some(Cell("Fire", Some(20)))

\* The loop has visited a Fire cell on its last but one unit of life, and a
\* flammable neighbour of it, or an empty slot, now holds a Fire cell of
\* life 20.
C28_Witness ==
    /\ pc = "ticking"
    /\ \E c \in visited : \E d \in Coords \ {c} :
          /\ cells[c] = Some(Cell("Fire", Some(2)))
          /\ ~IsFire(cells[d])
          /\ new_cells[d] = Some(Cell("Fire", Some(20)))

\* The diagonal slots below c.
Diagonals(c) == {d \in Coords : d[2] = c[2] + 1 /\ d[1] \in {c[1] - 1, c[1] + 1}}

\* The turn of the loop this step takes is on the cell at c, a cell of a
\* material whose only rule that writes a diagonal slot is the slide.
SlopeTurn(c) ==
    /\ pc = "ticking"
    /\ c \notin visited
    /\ c \in visited'
    /\ IsSome(cells[c])
    /\ cell_material(Unwrap(cells[c])).kind \notin {"Gas", "Fire"}

\* C29 - No sliding through solids: a turn of the loop writes a diagonal
\* slot below its cell only if, in the snapshot, the cell sinks under or
\* dissolves the content of that slot and sinks under the content of the
\* lateral slot on the same side.
C29_NoSlideThroughSolids ==
    [][\A c \in Coords :
          SlopeTurn(c) =>
              \A d \in Diagonals(c) :
                  new_cells'[d] # new_cells[d] =>
                      /\ \/ cell_sinks_under(Unwrap(cells[c]), cells[d])
                         \/ dissolves(Unwrap(cells[c]), cells[d])
                      /\ cell_sinks_under(Unwrap(cells[c]), cells[<<d[1], c[2]>>])]_vars

\* A tick has run on a Powder cell resting on a Solid cell, with a Liquid
\* cell beside it on the bottom row, and the Powder cell has slid under the
\* Liquid.
C29_Witness ==
    /\ EndOfTick
    /\ \E c \in Occupied(cells) : \E d \in Diagonals(c) :
          /\ cell_material(Unwrap(cells[c])).kind = "Powder"
          /\ IsSome(cells[<<c[1], c[2] + 1>>])
          /\ cell_material(Unwrap(cells[<<c[1], c[2] + 1>>])).kind = "Solid"
          /\ IsSome(cells[d])
          /\ cell_material(Unwrap(cells[d])).kind = "Liquid"
          /\ cells[<<d[1], c[2]>>] = None
          /\ new_cells[d] = cells[c]
          /\ new_cells[c] = cells[d]

\* The turn of the loop on the cell at c of snapshot g comes to the slide:
\* the cell slides, is above the bottom row, does not float, does not fall
\* and does not go out on a fire.
ComesToSlide(g, c) ==
    /\ IsSome(g[c])
    /\ c[2] < GRID_HEIGHT - 1
    /\ cell_slides(Unwrap(g[c]))
    /\ ~FloatCond(g, c[1], c[2], Unwrap(g[c]))
    /\ ~(cell_falls(Unwrap(g[c])) /\ FallCond(g, c[1], c[2], Unwrap(g[c])))
    /\ ~(cell_falls(Unwrap(g[c])) /\ OnFire(g, c[1], c[2]))

\* The working record the slide of the cell at c starts from: that of the
\* tick, after the dissolution of a cell directly above an Acid cell.
BeforeSlide(c) ==
    IF cell_falls(Unwrap(cells[c])) /\ InAcid(cells, c[1], c[2], Unwrap(cells[c]))
    THEN DissolveInAcid(cells, Work, c[1], c[2], Unwrap(cells[c]))
    ELSE Work

\* The diagonal slots below c that qualify for the slide of the cell at c:
\* the snapshot tests hold and the successor buffer holds there what the
\* snapshot holds.
Qualifying(c) ==
    {d \in Diagonals(c) :
        /\ \/ cell_sinks_under(Unwrap(cells[c]), cells[d])
           \/ dissolves(Unwrap(cells[c]), cells[d])
        /\ cell_sinks_under(Unwrap(cells[c]), cells[<<d[1], c[2]>>])
        /\ cells[d] = new_cells[d]}

\* The successor buffer after the slide of the cell at c to the diagonal d.
SlidTo(c, d) == SlideTo(cells, BeforeSlide(c), c[1], c[2], Unwrap(cells[c]), d[1]).n

\* C30 - Claimed-slot check for sliding: no turn of the loop slides its cell
\* into a diagonal slot that the successor buffer and the snapshot hold
\* differently; a turn that comes to the slide slides its cell to one of the
\* qualifying diagonals, and to that one only, when there is one, and writes
\* no diagonal slot when there is none; and when both diagonals qualify,
\* there is a draw for the slide to each of them.
C30_ClaimedSlot ==
    /\ [][\A c \in Coords :
             SlopeTurn(c) =>
                 /\ \A d \in Diagonals(c) :
                        new_cells'[d] # new_cells[d] => cells[d] = new_cells[d]
                 /\ (ComesToSlide(cells, c) /\ Qualifying(c) # {}) =>
                        \E d \in Qualifying(c) : new_cells' = SlidTo(c, d)
                 /\ (ComesToSlide(cells, c) /\ Qualifying(c) = {}) =>
                        \A d \in Diagonals(c) : new_cells'[d] = new_cells[d]]_vars
    /\ [](pc = "ticking" =>
             \A c \in Coords \ visited :
                 (ComesToSlide(cells, c) /\ Cardinality(Qualifying(c)) = 2) =>
                     \A d \in Qualifying(c) :
                         \E r \in Draws(cells, c[1], c[2]) :
                             VisitCell(cells, Work, c[1], c[2], r).n = SlidTo(c, d))

\* The snapshot tests of the slide hold for the cell at c and the diagonal d.
SnapshotTests(c, d) ==
    /\ \/ cell_sinks_under(Unwrap(cells[c]), cells[d])
       \/ dissolves(Unwrap(cells[c]), cells[d])
    /\ cell_sinks_under(Unwrap(cells[c]), cells[<<d[1], c[2]>>])

\* The loop has visited a sliding cell that rests on another cell and passes
\* the snapshot tests on both sides: a third cell had moved into one of the
\* diagonal slots, and the cell has slid to the other one.
C30_Witness ==
    /\ pc = "ticking"
    /\ \E c \in visited : \E d1, d2 \in Diagonals(c) :
          /\ d1 # d2
          /\ ComesToSlide(cells, c)
          /\ SnapshotTests(c, d1)
          /\ SnapshotTests(c, d2)
          /\ new_cells[d1] # cells[d1]
          /\ new_cells[d1] # cells[c]
          /\ new_cells[d2] = cells[c]
          /\ new_cells[c] = cells[d2]

\* The slots beside c on its row.
Laterals(c) == {d \in Coords : d[2] = c[2] /\ d[1] \in {c[1] - 1, c[1] + 1}}

\* The cells of the snapshot that the gap-filling rule has moved into slot d
\* so far in the running tick: the Liquid and Acid cells beside d whose move
\* is among the writers of d.
FilledFrom(d) ==
    {c \in Laterals(d) :
        /\ IsSome(cells[c])
        /\ cell_material(Unwrap(cells[c])).kind \in {"Liquid", "Acid"}
        /\ CellTag(c[1], c[2]) \in writers[d]}

LandedFromAbove(d) == d[2] > 0 /\ PairTag(d[1], d[2]) \in writers[d]

\* C32: no sideways movement under an overhang.  At the end of the loop a
\* Liquid/Acid cell that filled a gap is never in a slot in which a cell
\* coming down from directly above that slot has landed in the same tick.
C32_Overhang ==
    EndOfTick =>
        \A d \in Coords : \A c \in FilledFrom(d) :
            new_cells[d] = cells[c] => ~LandedFromAbove(d)


\* The slot directly below c.
Under(c) == <<c[1], c[2] + 1>>

\* A turn of the loop on a cell of a falling material that the snapshot has
\* directly above a Fire cell.
OntoFire(c) ==
    /\ pc = "ticking"
    /\ c \notin visited
    /\ c \in visited'
    /\ IsSome(cells[c])
    /\ cell_falls(Unwrap(cells[c]))
    /\ c[2] < GRID_HEIGHT - 1
    /\ OnFire(cells, c[1], c[2])

\* What the turn leaves of a flammable cell, and of a non-flammable one.
Doused(c) ==
    IF cell_flammable(Unwrap(cells[c]))
    THEN /\ new_cells'[c] = None
         /\ \A d \in Coords \ {c} : new_cells'[d] = new_cells[d]
         /\ writers' = writers
    ELSE /\ new_cells'[c] = None
         /\ new_cells'[Under(c)] = cells[c]
         /\ \A d \in Coords \ {c, Under(c)} : new_cells'[d] = new_cells[d]

\* C33 as stated: every turn of the loop on a falling cell directly above a
\* Fire cell removes a flammable cell and writes nothing else, or moves a
\* non-flammable cell into the fire's slot.
C33_Original == [][\A c \in Coords : OntoFire(c) => Doused(c)]_vars

\* C33: a turn of the loop on a falling cell directly above a Fire cell, when
\* the cell does not float (no cell above it sinks under it) and does not
\* take the fall rule (it is not an Acid cell, which dissolves the fire),
\* removes a flammable cell from its slot and writes no other slot, the
\* fire's included; it clears the slot of a non-flammable cell and writes the
\* cell into the fire's slot, and no other slot.
C33_FallOntoFire ==
    [][\A c \in Coords :
          (/\ OntoFire(c)
           /\ ~FloatCond(cells, c[1], c[2], Unwrap(cells[c]))
           /\ ~FallCond(cells, c[1], c[2], Unwrap(cells[c])))
              => Doused(c)]_vars

\* A flammable cell that did not float has been removed above a Fire cell
\* that the loop has not come to yet, and the fire's slot is as it was.
C33_Witness ==
    /\ pc = "ticking"
    /\ \E c \in visited :
          /\ c[2] < GRID_HEIGHT - 1
          /\ IsSome(cells[c])
          /\ cell_falls(Unwrap(cells[c]))
          /\ cell_flammable(Unwrap(cells[c]))
          /\ OnFire(cells, c[1], c[2])
          /\ ~FloatCond(cells, c[1], c[2], Unwrap(cells[c]))
          /\ Under(c) \notin visited
          /\ new_cells[c] = None
          /\ new_cells[Under(c)] = cells[Under(c)]
          /\ lost[Unwrap(cells[c]).id] = 1


\* C34: one tick per expiry of the timer.  Between two runs of tick_grid the
\* generations the grid has advanced are as many as the expiries of the
\* timer so far, and the loop starts only in a frame in which the timer has
\* just finished.
C34_TickPerExpiry ==
    /\ [](pc = "idle" => gen = expiries)
    /\ [][(pc = "idle" /\ pc' = "ticking") => just_finished(timer')]_vars


\* The materials a cell of the grid may be of.
Offered == {"Sand", "Stone", "Wood", "Water", "Oil", "Acid", "Oxygen", "Fire"}

\* C35: no Wind cell is ever on the grid.  Every cell of the live grid and
\* of the successor buffer is of one of the eight materials select_tile
\* offers, the selected material is one of them, and tick_grid never reaches
\* todo!().
C35_NoWind ==
    /\ \A c \in Coords : IsSome(cells[c]) => Unwrap(cells[c]).id \in Offered
    /\ \A c \in Coords : IsSome(new_cells[c]) => Unwrap(new_cells[c]).id \in Offered
    /\ selected \in Offered
    /\ pc # "panicked"

\* A material other than the default has been selected and placed, and a
\* tick has gone through the grid that holds it.
C35_Witness ==
    /\ pc = "idle"
    /\ gen > 0
    /\ selected = "Fire"
    /\ \E c \in Coords : IsSome(cells[c]) /\ Unwrap(cells[c]).id = "Fire"


\* The material ids present on a grid.
Ids(g) == {Unwrap(g[c]).id : c \in Occupied(g)}

\* C36: a tick introduces no material.  All through the loop, and so at its
\* end, the material ids in the successor buffer are among those of the
\* snapshot: a grid without Fire gets no Fire, an empty grid stays empty.
C36_NoNewMaterial == pc = "ticking" => Ids(new_cells) \subseteq Ids(cells)

\* The loop is over, combustion spread has created a Fire cell, and the
\* successor holds more cells than the snapshot did.
C36_Witness ==
    /\ EndOfTick
    /\ lit > 0
    /\ Cardinality(Occupied(new_cells)) > Cardinality(Occupied(cells))
    /\ Ids(new_cells) \subseteq Ids(cells)


\* The slots a Fire cell at c may rise to: rows y - 2 .. y and columns
\* x - 1 .. x + 1, within the grid.
RiseArea(c) ==
    {d \in Coords : d[1] \in c[1] - 1 .. c[1] + 1 /\ d[2] \in c[2] - 2 .. c[2]}

\* C37: fire never moves downward.  A turn of the loop on a Fire cell above
\* the bottom row either removes the cell (its life is over, or a
\* non-flammable cell blocks its rise) or writes it, with one unit of life
\* less, into a slot of rows y - 2 .. y and columns x - 1 .. x + 1, leaving
\* its own slot empty unless that is the destination; the slots its rise
\* writes are its own and that destination only.
C37_FireRises ==
    [][\A c \in Coords :
          (/\ pc = "ticking" /\ c \notin visited /\ c \in visited'
           /\ IsSome(cells[c])
           /\ cell_material(Unwrap(cells[c])).kind = "Fire"
           /\ c[2] < GRID_HEIGHT - 1)
              => /\ \A d \in Coords :
                       CellTag(c[1], c[2]) \in writers'[d] => d \in RiseArea(c)
                 /\ \/ /\ new_cells'[c] = None
                       /\ lost'["Fire"] = lost["Fire"] + 1
                    \/ \E d \in RiseArea(c) :
                          /\ new_cells'[d] =
                                Some(Cell("Fire", Some(Unwrap(Unwrap(cells[c]).life) - 1)))
                          /\ Unwrap(Unwrap(new_cells'[d]).life) < Unwrap(Unwrap(cells[c]).life)
                          /\ CellTag(c[1], c[2]) \in writers'[d]
                          /\ d # c => new_cells'[c] = None]_vars

\* A Fire cell that was above the bottom row has risen one row and one
\* column aside, one unit of life less.
C37_Witness ==
    /\ pc = "ticking"
    /\ \E c \in visited : \E d \in RiseArea(c) :
          /\ IsSome(cells[c])
          /\ cell_material(Unwrap(cells[c])).kind = "Fire"
          /\ c[2] < GRID_HEIGHT - 1
          /\ d[2] = c[2] - 1
          /\ d[1] # c[1]
          /\ CellTag(c[1], c[2]) \in writers[d]
          /\ new_cells[c] = None
          /\ new_cells[d] = Some(Cell("Fire", Some(Unwrap(Unwrap(cells[c]).life) - 1)))


\* C38: the mesh reflects the live grid.  A run of draw_grid leaves in the
\* mesh exactly one quad per occupied slot of the live grid, of the colour
\* of the cell's material, none when the grid is empty, and leaves the grid
\* as it was.
C38_MeshReflectsGrid ==
    [][runs' # runs => (mesh' = Quads(cells') /\ cells' = cells)]_vars


\* C39: the systems are gated by the application state.  While the state is
\* Loading no system has run: no input or drawing system, no tick, and the
\* grid, the selection and the mesh are as constructed.  The state leaves
\* Loading only for Playing, by the step that creates the Grid resource with
\* an empty grid, brush index 1 and Sand selected, and never leaves Playing.
C39_StateGating ==
    /\ [](state = "Loading" =>
             /\ runs = 0
             /\ gen = 0
             /\ pc = "idle"
             /\ cells = EmptyGrid
             /\ selected = "Sand"
             /\ mesh = {})
    /\ [][/\ state = "Playing" => state' = "Playing"
          /\ state = "Loading" =>
                /\ state' = "Playing"
                /\ cells' = EmptyGrid
                /\ brush_size' = 1
                /\ selected' = "Sand"
                /\ runs' = 0
                /\ gen' = 0
                /\ pc' = "idle"]_vars

\* The application is playing: the brush has been made smaller, a stroke
\* placed, the grid drawn and a tick run.
C39_Witness ==
    /\ state = "Playing"
    /\ pc = "idle"
    /\ brush_size = 0
    /\ gen = 1
    /\ runs >= 3
    /\ mesh # {}


\* C40: the brush index.  grid.brush_size is always an index of BRUSH_SIZES
\* (0 .. 3 in the source, 1 .. 4 in the sequence of the model), and so is
\* what any further MouseWheel event makes of it: a scroll down at index 0
\* and a scroll up at index 3 leave it as it is.  The radius looked up is one
\* of the four, and the tiles a stroke writes are coordinates of the grid.
C40_BrushIndex ==
    /\ brush_size \in 0 .. 3
    /\ brush_size + 1 \in DOMAIN BRUSH_SIZES
    /\ BRUSH_SIZES[brush_size + 1] \in {0, 2, 4, 8}
    /\ \A ev \in {-1, 0, 1} : Scroll(brush_size, ev) \in 0 .. 3
    /\ brush_size = 0 => Scroll(brush_size, -1) = 0
    /\ brush_size = 3 => Scroll(brush_size, 1) = 3
    /\ stroke.tiles \subseteq Coords
    /\ stroke.hit \subseteq stroke.tiles

\* The wheel has taken the brush down to index 0 and a stroke of that brush
\* has written its one tile, the cursor's.
C40_Witness ==
    /\ brush_size = 0
    /\ runs = 2
    /\ IsSome(last_cursor_position)
    /\ stroke.tiles = {Unwrap(last_cursor_position)}
    /\ stroke.hit = {}
    /\ IsSome(cells[Unwrap(last_cursor_position)])

====
